---- MODULE Spec2Model ----
(***************************************************************************)
(* Supervisor and pipeline lifecycle of the agent (agent/src/trident.rs).  *)
(*                                                                         *)
(* The model follows Trident::run (the supervisor thread), Trident::stop,  *)
(* Components::new / start / stop, and the writers of the shared State     *)
(* cell.  The build modelled is target_os = "linux".                       *)
(***************************************************************************)
EXTENDS Naturals, Sequences, FiniteSets, TLC

VARIABLES
    state,            \* the State cell behind the Mutex (TridentState.0)
    mutex,            \* holder of the State mutex: "free" or "run"
    pc,               \* position of the supervisor thread in Trident::run
    new_state,        \* the local new_state swapped out of the cell (Running
                      \* again once unwrap_config has consumed it)
    components,       \* local `components: Option<Components>`
    yaml_conf,        \* local `yaml_conf: Option<YamlConfig>`
    static_k8s,       \* config_handler.static_config.kubernetes_cluster_id
    candidate_config, \* config_handler.candidate_config
    agent_mode,       \* static_config.agent_mode (RunningMode)
    guard,            \* the Guard: "new", "started" or "stopped"
    monitor,          \* the Monitor: "new", "started" or "stopped"
    sync_started,     \* synchronizer.start() has run
    stats_collector,  \* stats_collector.start() has run (in Trident::start)
    new_calls,        \* number of Components::new invocations in this process
    trace,            \* operations of the event the supervisor has just handled
    calls,            \* component start/stop calls made while handling it
    applied,          \* the steps of the loop body taken for the ConfigChanged
                      \* just applied, in program order
                      \* (all three are cleared when the supervisor next takes the mutex)
    exit_code,        \* process exit: "none", "1", "NORMAL_EXIT_WITH_RESTART"
    stop_called,      \* Trident::stop has published Terminated
    joined,           \* Trident::stop's join has returned
    listener,         \* the DomainNameListener: thread_handler, stopped,
                      \* domain_names, ips
    watchers,         \* the threads spawned by DomainNameListener::run
    dnl_call,         \* the latest start / stop call on the listener
    round,            \* the latest polling round of a watcher thread
    uplink,           \* addresses held by the Synchronizer session, the stats
                      \* collector and the remote-log sink
    cb_in,            \* arguments of dispatcher_listener_callback
    cb_out,           \* the calls it made on the dispatcher listeners
    cur_tap_types,    \* components.cur_tap_types
    tap_call,         \* the latest parse_tap_type call: the cache it found, its
                      \* argument, the lists it sent to on_tap_types_change
    overflow_checks,  \* the build panics on integer overflow (debug profile)
                      \* or wraps (release profile)
    col_in,           \* arguments of Components::new_collector
    col_out,          \* the delays and Collector windows it computed
    units_in,         \* what Components::new enumerates capture units from
    units_out,        \* the unit list and the per-unit vectors it built
    launch_in,        \* what Trident::start is called with and what it finds
    launch_out,       \* what Trident::start did and returned
    ev_in,            \* one ConfigChanged as far as the dispatcher listeners are
                      \* concerned, and whether a pipeline exists when it is applied
    ev_out            \* the calls the listeners received while it was applied

\* the supervisor and its pipeline
pipeline_vars ==
    <<state, mutex, pc, new_state, components, yaml_conf, static_k8s,
      candidate_config, agent_mode, guard, monitor, sync_started,
      new_calls, trace, calls, applied, exit_code, stop_called, joined,
      stats_collector>>

\* the controller watcher
watcher_vars == <<listener, watchers, dnl_call, round, uplink>>

\* one run of dispatcher_listener_callback
callback_vars == <<cb_in, cb_out>>

\* the tap-type cache of the pipeline
tap_vars == <<cur_tap_types, tap_call>>

\* one run of Components::new_collector
collector_vars == <<overflow_checks, col_in, col_out>>

\* the capture units of one Components::new
unit_vars == <<units_in, units_out>>

\* one call of Trident::start
launch_vars == <<launch_in, launch_out>>

\* the dispatcher listeners during one ConfigChanged
event_vars == <<ev_in, ev_out>>

vars ==
    <<pipeline_vars, watcher_vars, callback_vars, tap_vars, collector_vars, unit_vars,
      launch_vars, event_vars>>

-----------------------------------------------------------------------------
(* Bounds of the model *)

\* largest number of configured source interfaces in a yaml_config
MaxSrcIfs == 1

\* largest number of extra network namespaces matched at build time
MaxNetns == 1

\* largest number of controller domain names
MaxNames == 2

\* largest number of watcher threads spawned in one behaviour
MaxSpawns == 2

\* largest number of dispatcher listeners handed to the callback
MaxListeners == 2

\* longest tap-type list handed to parse_tap_type
MaxTapTypes == 2

\* largest number of callbacks returned by one ConfigHandler::on_config
MaxCallbacks == 2

\* largest small duration, in seconds, of a yaml_config
MaxSecs == 1

\* how far below 2^32 seconds the large packet_delay values start
NearWrap == 12

\* longest src_interfaces list of a yaml_config whose names are modelled
MaxSrcNames == 2

\* number of network namespace files on the host
MaxNsFiles == 2

-----------------------------------------------------------------------------
(* Data *)

\* Option::None of a record-valued option
None == [none |-> TRUE]

\* Option::None of kubernetes_cluster_id: Option<String>
NoClusterId == "None"

RunningModes == {"Managed", "Standalone"}

TapModes == {"Local", "Analyzer"}

\* yaml_config: the part of the configuration that fixes the topology
YamlConfigs == [src_interfaces : 0..MaxSrcIfs]

RuntimeConfigs ==
    [yaml_config : YamlConfigs, tap_mode : TapModes, metric_server_enabled : BOOLEAN]

ClusterIds == {"k1"}

\* kubernetes_cluster_id: Option<String>: None, Some of the empty string, Some
\* of a cluster id
ChangedConfigs ==
    [runtime_config : RuntimeConfigs,
     kubernetes_cluster_id : {NoClusterId, ""} \cup ClusterIds]

\* the payloads the Synchronizer posts in this model: every yaml_config, with
\* two profiles (Local capture, no MetricServer, no cluster id; Analyzer
\* capture, MetricServer enabled, a cluster id)
PostedConfigs ==
    {c \in ChangedConfigs :
        /\ c.runtime_config.metric_server_enabled = (c.runtime_config.tap_mode = "Analyzer")
        /\ c.kubernetes_cluster_id # ""
        /\ (c.kubernetes_cluster_id # NoClusterId) = (c.runtime_config.tap_mode = "Analyzer")}

\* payloads that differ in the cluster id only: every yaml_config, Local
\* capture, no MetricServer, and each value of the optional cluster id
ClusterIdPosts ==
    {c \in ChangedConfigs :
        /\ c.runtime_config.tap_mode = "Local"
        /\ ~c.runtime_config.metric_server_enabled}

Running == [kind |-> "Running"]

Terminated == [kind |-> "Terminated"]

Disabled == [kind |-> "Disabled"]

ConfigChanged(c) == [kind |-> "ConfigChanged", config |-> c]

Max(a, b) == IF a >= b THEN a ELSE b

\* [kind, 0], ..., [kind, n-1] in iteration order
PerUnit(kind, n) == [i \in 1..n |-> <<kind, i - 1>>]

One(kind) == << <<kind, 0>> >>

Opt(cond, s) == IF cond THEN s ELSE << >>

\* start (stop) calls to the components s in order; prev is the call the
\* component had received last before this one
StartOf(s, last) == [i \in 1..Len(s) |-> [op |-> "start", c |-> s[i], prev |-> last[s[i]]]]

StopOf(s, last) == [i \in 1..Len(s) |-> [op |-> "stop", c |-> s[i], prev |-> last[s[i]]]]

Range(s) == {s[i] : i \in 1..Len(s)}

-----------------------------------------------------------------------------
(* Components: the pipeline instance *)

\* components that exist once per instance
SingleKinds ==
    {"stats_sender", "libvirt_xml_extractor", "pcap_manager", "platform_synchronizer",
     "api_watcher", "kubernetes_poller", "debugger", "metrics_uniform_sender",
     "l7_flow_uniform_sender", "l4_flow_uniform_sender",
     "packet_sequence_uniform_sender", "ebpf_collector", "cgroups_controller",
     "otel_uniform_sender", "compressed_otel_uniform_sender",
     "prometheus_uniform_sender", "telegraf_uniform_sender",
     "external_metrics_server", "domain_name_listener"}

\* components that exist once per capture unit
UnitKinds ==
    {"packet_sequence_parser", "dispatcher", "log_parser", "collector", "handler_builders"}

\* the handles a Components value owns
CompsOf(units, has_ebpf) ==
    {<<k, 0>> : k \in (SingleKinds \ (IF has_ebpf THEN {} ELSE {"ebpf_collector"}))}
        \cup {<<k, i>> : k \in UnitKinds, i \in 0..(units - 1)}

\* what component x saw last after the calls cs (each component is called at
\* most once by one Components::new, start or stop)
LastAfter(last, cs, x) ==
    IF \E i \in 1..Len(cs) : cs[i].c = x
    THEN cs[CHOOSE i \in 1..Len(cs) : cs[i].c = x].op
    ELSE last[x]

\* the calls cs as seen by the components of c: `last` is the latest call each
\* one received
Observe(c, cs) ==
    [c EXCEPT !.last = [x \in DOMAIN c.last |-> LastAfter(c.last, cs, x)]]

\* number of capture units: one per source interface (or one unnamed unit),
\* then one per extra network namespace
CaptureUnits(yaml, netns) == Max(1, yaml.src_interfaces) + netns

\* usize::to_string
Digits == <<"0", "1", "2", "3", "4", "5", "6", "7", "8", "9">>

RECURSIVE UsizeToString(_)
UsizeToString(n) ==
    IF n < 10 THEN Digits[n + 1] ELSE UsizeToString(n \div 10) \o Digits[(n % 10) + 1]

\* stats_collector.register_countable("queue", counter, [module, index])
Registered(module, index) == [module |-> module, index |-> index]

\* a queue made by queue::bounded_with_debug: its name, the id that tells
\* queues of one name apart, the tags its counter was registered under (None:
\* the counter was dropped), the components holding its sender, the component
\* that drains it and, for a queue handed to a UniformSenderThread, that
\* thread's sender id (NoSender otherwise)
Queue(name, id, tags, producers, consumer, sender_id) ==
    [name |-> name, id |-> id, tags |-> tags, producers |-> producers,
     consumer |-> consumer, sender_id |-> sender_id]

\* Option::Some
Some(x) == [some |-> x]

NoSender == None

\* the queue drained by one uniform sender thread
SenderQueue(name, index, producers, kind, sender_id) ==
    Queue(name, 0, Registered(name, index), producers, <<kind, 0>>, Some(sender_id))

\* the queues Components::new allocates for capture unit i, those of
\* Components::new_collector(i, ...) included
UnitQueues(i) ==
    {Queue("1-tagged-flow-to-quadruple-generator", i,
           Registered("1-tagged-flow-to-quadruple-generator", UsizeToString(i)),
           {<<"dispatcher", i>>}, <<"collector", i>>, NoSender),
     Queue("1-tagged-flow-to-app-protocol-logs", i,
           Registered("1-tagged-flow-to-app-protocol-logs", UsizeToString(i)),
           {<<"dispatcher", i>>}, <<"log_parser", i>>, NoSender),
     Queue("1-packet-sequence-block-to-uniform-collect-sender", i,
           Registered("1-packet-sequence-block-to-uniform-collect-sender", UsizeToString(i)),
           {<<"dispatcher", i>>}, <<"packet_sequence_parser", i>>, NoSender),
     Queue("2-flow-with-meter-to-second-collector", i,
           Registered("2-flow-with-meter-to-second-collector", UsizeToString(i)),
           {<<"collector", i>>}, <<"collector", i>>, NoSender),
     Queue("2-flow-with-meter-to-minute-collector", i,
           Registered("2-flow-with-meter-to-minute-collector", UsizeToString(i)),
           {<<"collector", i>>}, <<"collector", i>>, NoSender),
     Queue("2-second-flow-to-minute-aggrer", i,
           Registered("2-second-flow-to-minute-aggrer", UsizeToString(i)),
           {<<"collector", i>>}, <<"collector", i>>, NoSender)}

\* every queue::bounded_with_debug of Components::new, with the registration
\* that follows it
QueuesOf(units, has_ebpf) ==
    LET All(kind) == {<<kind, i>> : i \in 0..(units - 1)}
        Metrics == {<<"external_metrics_server", 0>>}
    IN  {Queue("1-mini-meta-packet-to-pcap", 0, None, All("handler_builders"),
               <<"pcap_manager", 0>>, NoSender),
         SenderQueue("3-flow-to-collector-sender", UsizeToString(0), All("collector"),
                     "l4_flow_uniform_sender", 0),
         SenderQueue("2-doc-to-collector-sender", UsizeToString(1), All("collector"),
                     "metrics_uniform_sender", 1),
         SenderQueue("3-protolog-to-collector-sender", "0",
                     All("log_parser")
                        \cup (IF has_ebpf THEN {<<"ebpf_collector", 0>>} ELSE {}),
                     "l7_flow_uniform_sender", 2),
         SenderQueue("packet_sequence_block-to-sender", UsizeToString(6),
                     All("packet_sequence_parser"), "packet_sequence_uniform_sender", 6),
         SenderQueue("otel-to-sender", UsizeToString(3), Metrics,
                     "otel_uniform_sender", 3),
         SenderQueue("prometheus-to-sender", UsizeToString(4), Metrics,
                     "prometheus_uniform_sender", 4),
         SenderQueue("telegraf-to-sender", UsizeToString(5), Metrics,
                     "telegraf_uniform_sender", 5),
         SenderQueue("compressed-otel-to-sender", UsizeToString(6), Metrics,
                     "compressed_otel_uniform_sender", 6)}
        \cup UNION {UnitQueues(i) : i \in 0..(units - 1)}

\* Components::new: builds the instance; only stats_sender is started
ComponentsNew(config, mode, netns, ebpf_ok, id) ==
    LET units == CaptureUnits(config.yaml_config, netns)
        cs == StartOf(One("stats_sender"), [c \in CompsOf(units, ebpf_ok) |-> "none"])
        fresh == [id |-> id,
                  config |-> config,
                  tap_mode |-> config.tap_mode,
                  agent_mode |-> mode,
                  units |-> units,
                  has_ebpf |-> ebpf_ok,
                  running |-> FALSE,
                  queues |-> QueuesOf(units, ebpf_ok),
                  last |-> [c \in CompsOf(units, ebpf_ok) |-> "none"]]
    IN  [comp |-> Observe(fresh, cs), calls |-> cs]

\* DomainNameListener::new, for n domain names (thread_handler: 0 is None)
DomainNameListenerNew(n) ==
    [thread_handler |-> 0, stopped |-> FALSE, domain_names |-> n,
     ips |-> [i \in 1..n |-> "a1"]]

\* one call made inside Components::new
NewStep(op, what) == [op |-> op, what |-> what]

\* stats_collector.register_countable("queue", ...) for the queue name / id
RegisterQueue(c, name, id) ==
    NewStep("register_countable",
            (CHOOSE q \in c.queues : q.name = name /\ q.id = id).tags)

\* the queue registrations of Components::new in program order: the trunk
\* queues, the queues of each capture unit (those of new_collector last), the
\* queues of the external metrics server
QueueRegistrations(c) ==
    LET Unit(i) ==
            <<RegisterQueue(c, "1-tagged-flow-to-quadruple-generator", i),
              RegisterQueue(c, "1-tagged-flow-to-app-protocol-logs", i),
              RegisterQueue(c, "1-packet-sequence-block-to-uniform-collect-sender", i),
              RegisterQueue(c, "2-flow-with-meter-to-second-collector", i),
              RegisterQueue(c, "2-flow-with-meter-to-minute-collector", i),
              RegisterQueue(c, "2-second-flow-to-minute-aggrer", i)>>
    IN  <<RegisterQueue(c, "3-flow-to-collector-sender", 0),
          RegisterQueue(c, "2-doc-to-collector-sender", 0),
          RegisterQueue(c, "3-protolog-to-collector-sender", 0),
          RegisterQueue(c, "packet_sequence_block-to-sender", 0)>>
        \o [k \in 1..(6 * c.units) |-> Unit((k - 1) \div 6)[((k - 1) % 6) + 1]]
        \o <<RegisterQueue(c, "otel-to-sender", 0),
              RegisterQueue(c, "prometheus-to-sender", 0),
              RegisterQueue(c, "telegraf-to-sender", 0),
              RegisterQueue(c, "compressed-otel-to-sender", 0)>>

\* mutant: the stats sender is started once the instance is complete
ConstructionSteps_StartLast(c) ==
    QueueRegistrations(c) \o <<NewStep("start", <<"stats_sender", 0>>)>>

\* the start and register_countable calls of Components::new in program order
ConstructionSteps(c) ==
    <<NewStep("start", <<"stats_sender", 0>>)>> \o QueueRegistrations(c)

\* the value Components::new returns, as its caller finds it: the running
\* flag, the components that have received start, the thread handle of the
\* controller watcher (DomainNameListener::new, the same for every list of
\* names), and the calls made on the way
Returned(c) ==
    [running |-> c.running,
     started |-> {x \in DOMAIN c.last : c.last[x] = "start"},
     thread_handler |-> DomainNameListenerNew(0).thread_handler,
     steps |-> ConstructionSteps(c)]

\* mutant: the cluster id is not looked at
MemoryGated_TapModeOnly(c) == c.tap_mode # "Analyzer"

\* the condition under which Components::start calls free_memory_check
MemoryGated(c) == c.tap_mode # "Analyzer" /\ c.config.kubernetes_cluster_id = ""

\* free_memory_check in Components::start: not called, Ok(()) or Err(e)
FreeMemoryCheck(c, mem_ok) ==
    IF MemoryGated(c) THEN (IF mem_ok THEN "ok" ELSE "failed") ELSE "none"

\* the dispatchers started by Components::start, after the free-memory gate
DispatcherStarts(c, mem_ok) ==
    IF FreeMemoryCheck(c, mem_ok) = "failed"
    THEN << >>
    ELSE PerUnit("dispatcher", c.units)

\* mutant: the dispatchers are started before the senders
StartBody_DispatchersFirst(c, mem_ok) ==
    StartOf(
        One("libvirt_xml_extractor") \o One("pcap_manager")
        \o Opt(c.agent_mode = "Managed",
               One("platform_synchronizer") \o One("api_watcher"))
        \o One("kubernetes_poller") \o One("debugger")
        \o DispatcherStarts(c, mem_ok)
        \o One("metrics_uniform_sender") \o One("l7_flow_uniform_sender")
        \o One("l4_flow_uniform_sender")
        \o One("packet_sequence_uniform_sender")
        \o PerUnit("packet_sequence_parser", c.units)
        \o PerUnit("log_parser", c.units)
        \o PerUnit("collector", c.units)
        \o Opt(c.has_ebpf, One("ebpf_collector"))
        \o Opt(c.agent_mode = "Managed",
               One("otel_uniform_sender") \o One("compressed_otel_uniform_sender")
               \o One("prometheus_uniform_sender") \o One("telegraf_uniform_sender")
               \o Opt(c.config.metric_server_enabled, One("external_metrics_server")))
        \o One("domain_name_listener")
        \o PerUnit("handler_builders", c.units),
        c.last)

\* the body of Components::start past the running guard, in program order
StartBody(c, mem_ok) ==
    StartOf(
        One("libvirt_xml_extractor") \o One("pcap_manager")
        \o Opt(c.agent_mode = "Managed",
               One("platform_synchronizer") \o One("api_watcher"))
        \o One("kubernetes_poller") \o One("debugger")
        \o One("metrics_uniform_sender") \o One("l7_flow_uniform_sender")
        \o One("l4_flow_uniform_sender")
        \o One("packet_sequence_uniform_sender")
        \o PerUnit("packet_sequence_parser", c.units)
        \o DispatcherStarts(c, mem_ok)
        \o PerUnit("log_parser", c.units)
        \o PerUnit("collector", c.units)
        \o Opt(c.has_ebpf, One("ebpf_collector"))
        \o Opt(c.agent_mode = "Managed",
               One("otel_uniform_sender") \o One("compressed_otel_uniform_sender")
               \o One("prometheus_uniform_sender") \o One("telegraf_uniform_sender")
               \o Opt(c.config.metric_server_enabled, One("external_metrics_server")))
        \o One("domain_name_listener")
        \o PerUnit("handler_builders", c.units),
        c.last)

\* mutant: Components::start without the running guard
StartGuard_Always(c) == TRUE

\* the running guard of Components::start: running.swap(true)
StartGuard(c) == ~c.running

\* Components::start
ComponentsStart(c, mem_ok) ==
    IF StartGuard(c)
    THEN LET cs == StartBody(c, mem_ok)
         IN  [comp |-> Observe([c EXCEPT !.running = TRUE], cs), calls |-> cs,
              check |-> FreeMemoryCheck(c, mem_ok)]
    ELSE [comp |-> c, calls |-> << >>, check |-> "returned"]

\* mutant: the trunk senders are stopped before the collectors and log
\* parsers that feed them
StopBody_SendersFirst(c) ==
    StopOf(
        PerUnit("dispatcher", c.units)
        \o One("platform_synchronizer") \o One("api_watcher")
        \o One("l4_flow_uniform_sender") \o One("metrics_uniform_sender")
        \o One("l7_flow_uniform_sender")
        \o PerUnit("collector", c.units)
        \o PerUnit("log_parser", c.units)
        \o One("libvirt_xml_extractor") \o One("debugger")
        \o Opt(c.has_ebpf, One("ebpf_collector"))
        \o One("cgroups_controller")
        \o One("external_metrics_server")
        \o One("otel_uniform_sender") \o One("compressed_otel_uniform_sender")
        \o One("prometheus_uniform_sender") \o One("telegraf_uniform_sender")
        \o One("packet_sequence_uniform_sender")
        \o One("domain_name_listener")
        \o PerUnit("handler_builders", c.units)
        \o One("pcap_manager"),
        c.last)

\* the body of Components::stop past the running guard, in program order
StopBody(c) ==
    StopOf(
        PerUnit("dispatcher", c.units)
        \o One("platform_synchronizer") \o One("api_watcher")
        \o PerUnit("collector", c.units)
        \o PerUnit("log_parser", c.units)
        \o One("l4_flow_uniform_sender") \o One("metrics_uniform_sender")
        \o One("l7_flow_uniform_sender")
        \o One("libvirt_xml_extractor") \o One("debugger")
        \o Opt(c.has_ebpf, One("ebpf_collector"))
        \o One("cgroups_controller")
        \o One("external_metrics_server")
        \o One("otel_uniform_sender") \o One("compressed_otel_uniform_sender")
        \o One("prometheus_uniform_sender") \o One("telegraf_uniform_sender")
        \o One("packet_sequence_uniform_sender")
        \o One("domain_name_listener")
        \o PerUnit("handler_builders", c.units)
        \o One("pcap_manager"),
        c.last)

\* mutant: Components::stop without the running guard
StopGuard_Always(c) == TRUE

\* the running guard of Components::stop: running.swap(false)
StopGuard(c) == c.running

\* Components::stop
ComponentsStop(c) ==
    IF StopGuard(c)
    THEN LET cs == StopBody(c)
         IN  [comp |-> Observe([c EXCEPT !.running = FALSE], cs), calls |-> cs]
    ELSE [comp |-> c, calls |-> << >>]

\* the queue wiring made by Components::new: <<producer, consumer>> pairs
Feeds(c) ==
    {<<(<<"dispatcher", i>>), (<<k, i>>)>> :
        k \in {"collector", "log_parser", "packet_sequence_parser"}, i \in 0..(c.units - 1)}
    \cup {<<(<<"collector", i>>), (<<k, 0>>)>> :
        k \in {"l4_flow_uniform_sender", "metrics_uniform_sender"}, i \in 0..(c.units - 1)}
    \cup {<<(<<"log_parser", i>>), (<<"l7_flow_uniform_sender", 0>>)>> : i \in 0..(c.units - 1)}
    \cup {<<(<<"packet_sequence_parser", i>>), (<<"packet_sequence_uniform_sender", 0>>)>> :
        i \in 0..(c.units - 1)}
    \cup {<<(<<"handler_builders", i>>), (<<"pcap_manager", 0>>)>> : i \in 0..(c.units - 1)}
    \cup (IF c.has_ebpf
          THEN {<<(<<"ebpf_collector", 0>>), (<<"l7_flow_uniform_sender", 0>>)>>}
          ELSE {})
    \cup {<<(<<"external_metrics_server", 0>>), (<<k, 0>>)>> :
        k \in {"otel_uniform_sender", "compressed_otel_uniform_sender",
               "prometheus_uniform_sender", "telegraf_uniform_sender"}}

\* ModuleConfig built by ConfigHandler::on_config from the static config and
\* the new runtime config
OnConfig(rc, k8s) ==
    [yaml_config |-> rc.yaml_config,
     tap_mode |-> rc.tap_mode,
     metric_server_enabled |-> rc.metric_server_enabled,
     kubernetes_cluster_id |-> k8s]

-----------------------------------------------------------------------------
(* DomainNameListener: the controller watcher *)

\* addresses a controller domain name may resolve to; a1 stands for the
\* address the name had when the agent booted (addresses of different names
\* are never compared with each other)
Addrs == {"a1", "a2"}

\* lookup_host: Err, or Ok with a non-empty list of distinct addresses
LookupFailed == [failed |-> TRUE]

Resolved(addrs) == [addrs |-> addrs]

Lookups ==
    {LookupFailed}
        \cup {Resolved(<<a>>) : a \in Addrs}
        \cup {Resolved(p) : p \in {q \in Addrs \X Addrs : q[1] # q[2]}}

\* mutant: a failed lookup marks the round as changed
ResolveOne_FailChanges(acc, i, current) ==
    IF current = LookupFailed
    THEN [acc EXCEPT !.changed = TRUE]
    ELSE LET changed ==
                ~(\E k \in 1..Len(current.addrs) : current.addrs[k] = acc.ips[i])
         IN  [ips |-> IF changed
                      THEN [acc.ips EXCEPT ![i] = current.addrs[1]]
                      ELSE acc.ips,
              changed |-> changed]

\* the body of `for i in 0..domain_names.len()` at position i, `current`
\* being the result of lookup_host(domain_names[i])
ResolveOne(acc, i, current) ==
    IF current = LookupFailed
    THEN acc
    ELSE LET changed ==
                ~(\E k \in 1..Len(current.addrs) : current.addrs[k] = acc.ips[i])
         IN  [ips |-> IF changed
                      THEN [acc.ips EXCEPT ![i] = current.addrs[1]]
                      ELSE acc.ips,
              changed |-> changed]

RECURSIVE ResolveFrom(_, _, _)
ResolveFrom(acc, i, results) ==
    IF i > Len(results)
    THEN acc
    ELSE ResolveFrom(ResolveOne(acc, i, results[i]), i + 1, results)

\* one polling round over all the names: the new ips and the `changed` flag
ResolveAll(ips, results) ==
    ResolveFrom([ips |-> ips, changed |-> FALSE], 1, results)

\* a thread that was never spawned / has returned
Unborn == [pc |-> "unborn", ips |-> << >>]

Exited == [pc |-> "exited", ips |-> << >>]

Alive(t) == watchers[t].pc \in {"check", "sleep"}

\* number of threads spawned so far
Born == Cardinality({t \in 1..MaxSpawns : watchers[t].pc # "unborn"})

NoCall == [op |-> "none", done |-> TRUE, held |-> FALSE, thread |-> 0]

NoRound == [thread |-> 0, outcome |-> << >>, reset |-> FALSE]

\* what a round saw at each position: the lookup failed, the answer holds the
\* current ips[i] ("same"), or it does not ("moved")
OutcomeOf(ips, results) ==
    [i \in 1..Len(results) |->
        IF results[i] = LookupFailed THEN "failed"
        ELSE IF \E k \in 1..Len(results[i].addrs) : results[i].addrs[k] = ips[i]
             THEN "same"
             ELSE "moved"]

\* the listener as Components::new leaves it
ListenerNew ==
    /\ listener \in {DomainNameListenerNew(n) : n \in 0..MaxNames}
    /\ watchers = [t \in 1..MaxSpawns |-> Unborn]
    /\ dnl_call = NoCall
    /\ round = NoRound
    /\ uplink = [session |-> listener.ips, stats |-> listener.ips, log |-> listener.ips]

\* mutant: start does not look at the thread handle
HandleHeld_Never(l) == FALSE

\* self.thread_handler.is_some()
HandleHeld(l) == l.thread_handler # 0

\* DomainNameListener::start, with run
DnlStart ==
    /\ dnl_call.done
    /\ IF HandleHeld(listener)
       THEN /\ dnl_call' = [op |-> "start", done |-> TRUE, held |-> TRUE, thread |-> 0]
            /\ UNCHANGED <<listener, watchers>>
       ELSE IF listener.domain_names = 0
            THEN /\ listener' = [listener EXCEPT !.stopped = FALSE]
                 /\ dnl_call' = [op |-> "start", done |-> TRUE, held |-> FALSE, thread |-> 0]
                 /\ UNCHANGED watchers
            ELSE /\ Born < MaxSpawns
                 /\ listener' = [listener EXCEPT !.stopped = FALSE,
                                                 !.thread_handler = Born + 1]
                 /\ watchers' = [watchers EXCEPT ![Born + 1] =
                                    [pc |-> "check", ips |-> listener.ips]]
                 /\ dnl_call' = [op |-> "start", done |-> TRUE, held |-> FALSE,
                                 thread |-> Born + 1]
    /\ UNCHANGED <<round, uplink>>
    /\ UNCHANGED <<pipeline_vars, callback_vars, tap_vars, collector_vars, unit_vars, launch_vars,
                   event_vars>>

\* DomainNameListener::stop up to the join
DnlStop ==
    /\ dnl_call.done
    /\ IF listener.thread_handler = 0
       THEN /\ dnl_call' = [op |-> "stop", done |-> TRUE, held |-> FALSE, thread |-> 0]
            /\ UNCHANGED listener
       ELSE /\ listener' = [listener EXCEPT !.stopped = TRUE, !.thread_handler = 0]
            /\ dnl_call' = [op |-> "stop", done |-> FALSE, held |-> TRUE,
                            thread |-> listener.thread_handler]
    /\ UNCHANGED <<watchers, round, uplink>>
    /\ UNCHANGED <<pipeline_vars, callback_vars, tap_vars, collector_vars, unit_vars, launch_vars,
                   event_vars>>

\* handler.join() returns: the thread taken out of thread_handler has returned
DnlJoin ==
    /\ ~dnl_call.done
    /\ watchers[dnl_call.thread].pc = "exited"
    /\ dnl_call' = [dnl_call EXCEPT !.done = TRUE]
    /\ UNCHANGED <<listener, watchers, round, uplink>>
    /\ UNCHANGED <<pipeline_vars, callback_vars, tap_vars, collector_vars, unit_vars, launch_vars,
                   event_vars>>

\* `while !stopped.swap(false)`: leave the loop on a set flag, else sleep
WatcherSwap(t) ==
    /\ listener' = [listener EXCEPT !.stopped = FALSE]
    /\ watchers' = [watchers EXCEPT ![t] =
                        IF listener.stopped THEN Exited ELSE [@ EXCEPT !.pc = "sleep"]]

\* the loop condition of watcher thread t
WatcherCheck(t) ==
    /\ watchers[t].pc = "check"
    /\ WatcherSwap(t)
    /\ UNCHANGED <<dnl_call, round, uplink>>
    /\ UNCHANGED <<pipeline_vars, callback_vars, tap_vars, collector_vars, unit_vars, launch_vars,
                   event_vars>>

\* the loop body after the sleep: resolve every name, and on `changed` reset
\* the session, the stats remotes and the remote-log destination
WatcherRound(t, results) ==
    /\ watchers[t].pc = "sleep"
    /\ LET r == ResolveAll(watchers[t].ips, results)
       IN  /\ watchers' = [watchers EXCEPT ![t] = [pc |-> "check", ips |-> r.ips]]
           /\ round' = [thread |-> t,
                        outcome |-> OutcomeOf(watchers[t].ips, results),
                        reset |-> r.changed]
           /\ uplink' = IF r.changed
                        THEN [session |-> r.ips, stats |-> r.ips, log |-> r.ips]
                        ELSE uplink
    /\ UNCHANGED <<listener, dnl_call>>
    /\ UNCHANGED <<pipeline_vars, callback_vars, tap_vars, collector_vars, unit_vars, launch_vars,
                   event_vars>>

-----------------------------------------------------------------------------
(* dispatcher_listener_callback *)

\* TapMode: the three arms of the match and one mode of the `_` arm
CaptureModes == {"Local", "Mirror", "Analyzer", "Decap"}

IfMacSources == {"IfMac", "IfName"}

\* NsFile of a listener: the root namespace or a named one
NetNs == {"Root", "ns1"}

\* links_by_name_regex / links_by_name_regex_in_netns: Err, no match, a match
LinksFailed == [failed |-> TRUE]

LinkResults(name) == {LinksFailed, [links |-> << >>], [links |-> <<name>>]}

\* Err(e) => vec![], Ok(links) => links
LinksOrEmpty(r) == IF r = LinksFailed THEN << >> ELSE r.links

\* listener.on_tap_interface_change(interfaces, if_mac_source, trident_type, blacklist)
TapInterfaceChange(i, interfaces, source, conf) ==
    [listener |-> i, call |-> "on_tap_interface_change",
     args |-> <<interfaces, source, conf.trident_type, conf.blacklist>>]

\* listener.on_vm_change(vm_mac_addrs)
VmChange(i, conf) ==
    [listener |-> i, call |-> "on_vm_change", args |-> <<conf.vm_mac_addrs>>]

\* parse_tap_type(components, tap_types)
ParseTapType(conf) ==
    [listener |-> 0, call |-> "parse_tap_type", args |-> <<conf.tap_types>>]

\* TapMode::Local, one iteration of the loop over the listeners
LocalCalls(conf, i) ==
    IF conf.listeners[i] # "Root"
    THEN <<TapInterfaceChange(i, LinksOrEmpty(conf.ns_links), conf.if_mac_source, conf)>>
    ELSE <<TapInterfaceChange(i, LinksOrEmpty(conf.root_links), conf.if_mac_source, conf),
           VmChange(i, conf)>>

\* mutant: the vm macs are not pushed
MirrorCalls_NoVm(conf, i) ==
    <<TapInterfaceChange(i, << >>, "IfMac", conf)>>

\* TapMode::Mirror and TapMode::Analyzer, one iteration of the loop
MirrorCalls(conf, i) ==
    <<TapInterfaceChange(i, << >>, "IfMac", conf), VmChange(i, conf)>>

RECURSIVE Flatten(_)
Flatten(ss) == IF ss = << >> THEN << >> ELSE Head(ss) \o Flatten(Tail(ss))

\* the calls made by dispatcher_listener_callback, in order
DispatcherListenerCallback(conf) ==
    LET n == Len(conf.listeners)
    IN  CASE conf.tap_mode = "Local" ->
                Flatten([i \in 1..n |-> LocalCalls(conf, i)])
          [] conf.tap_mode = "Mirror" ->
                Flatten([i \in 1..n |-> MirrorCalls(conf, i)])
          [] conf.tap_mode = "Analyzer" ->
                Flatten([i \in 1..n |-> MirrorCalls(conf, i)]) \o <<ParseTapType(conf)>>
          [] OTHER -> << >>

NotRun == [done |-> FALSE, calls |-> << >>]

\* the arguments of one run
CallbackArgs ==
    /\ cb_in \in [tap_mode : CaptureModes,
                  if_mac_source : IfMacSources,
                  trident_type : {"TtProcess"},
                  blacklist : {<<"mac9">>},
                  vm_mac_addrs : {<<"mac1">>},
                  tap_types : {<<"tap3">>},
                  listeners : UNION {[1..m -> NetNs] : m \in 0..MaxListeners},
                  root_links : LinkResults("eth0"),
                  ns_links : LinkResults("veth1")]
    /\ cb_out = NotRun

\* dispatcher_listener_callback runs
RunCallback ==
    /\ ~cb_out.done
    /\ cb_out' = [done |-> TRUE, calls |-> DispatcherListenerCallback(cb_in)]
    /\ UNCHANGED cb_in
    /\ UNCHANGED <<pipeline_vars, watcher_vars, tap_vars, collector_vars, unit_vars, launch_vars,
                   event_vars>>

\* no callback is modelled: a callback without listeners that has run
CallbackParked ==
    /\ cb_in = [tap_mode |-> "Decap", if_mac_source |-> "IfMac",
                trident_type |-> "TtProcess", blacklist |-> <<"mac9">>,
                vm_mac_addrs |-> <<"mac1">>, tap_types |-> <<"tap3">>,
                listeners |-> << >>, root_links |-> LinksFailed,
                ns_links |-> LinksFailed]
    /\ cb_out = [done |-> TRUE, calls |-> << >>]

\* no watcher is modelled: a listener without domain names
WatcherParked ==
    /\ ListenerNew
    /\ listener.domain_names = 0

-----------------------------------------------------------------------------
(* parse_tap_type *)

\* trident::TapType values
TapTypeValues == {"T1", "T2", "T3"}

TapTypeLists == UNION {[1..n -> TapTypeValues] : n \in 0..MaxTapTypes}

\* mutant: only the lengths are compared
TapTypesUpdated_LengthOnly(cur, tap_types) == Len(cur) # Len(tap_types)

\* `updated`: the lengths differ, or else some position differs
TapTypesUpdated(cur, tap_types) ==
    IF Len(cur) # Len(tap_types)
    THEN TRUE
    ELSE \E i \in 1..Len(tap_types) : cur[i] # tap_types[i]

\* parse_tap_type: the cache after the call and the lists sent to the TapTyper
ParseTapTypeBody(cur, tap_types) ==
    IF TapTypesUpdated(cur, tap_types)
    THEN [cur_tap_types |-> tap_types, notified |-> <<tap_types>>]
    ELSE [cur_tap_types |-> cur, notified |-> << >>]

NoTapCall == [done |-> FALSE, before |-> << >>, tap_types |-> << >>, notified |-> << >>]

\* Components::new: cur_tap_types: vec![]
TapCacheNew ==
    /\ cur_tap_types = << >>
    /\ tap_call = NoTapCall

\* one call of parse_tap_type on the pipeline
ParseTapTypeCall(tap_types) ==
    LET r == ParseTapTypeBody(cur_tap_types, tap_types)
    IN  /\ cur_tap_types' = r.cur_tap_types
        /\ tap_call' = [done |-> TRUE, before |-> cur_tap_types,
                        tap_types |-> tap_types, notified |-> r.notified]
        /\ UNCHANGED <<pipeline_vars, watcher_vars, callback_vars, collector_vars,
                       unit_vars, launch_vars, event_vars>>

-----------------------------------------------------------------------------
(* Components::new_collector: tolerable delays and Collector windows *)

\* const COMMON_DELAY: u32 = 5
COMMON_DELAY == 5

\* 2^16: a count of seconds is held as <<q, r>>, standing for q * 2^16 + r
\* with r < 2^16; a u32 has q < 2^16, the u64 values of the model stay far
\* below 2^64
Word == 65536

Secs(n) == <<n \div Word, n % Word>>

\* u64 addition (no overflow for the durations of the model)
AddU64(a, b) ==
    LET r == a[2] + b[2]
    IN  <<a[1] + b[1] + (r \div Word), r % Word>>

\* `x as u32`: keeps the low 32 bits
AsU32(a) == <<a[1] % Word, a[2]>>

Panicked == <<"panic">>

\* u32 addition: on overflow a build with overflow checks panics, one
\* without wraps
AddU32(a, b, checks) ==
    LET s == AddU64(a, b)
    IN  IF s[1] < Word THEN s
        ELSE IF checks THEN Panicked
        ELSE <<s[1] % Word, s[2]>>

\* MetricsType flags
MetricsTypes == SUBSET {"SECOND", "MINUTE"}

\* Duration::as_secs of packet_delay: small, just below 2^32, or above
PacketDelays ==
    {<<q, r>> : q \in {0, Word - 1, Word},
                r \in (0..MaxSecs) \cup {Word - k : k \in 1..NearWrap}}

SmallDelays == {Secs(n) : n \in 0..MaxSecs}

\* second_quadruple_tolerable_delay
SecondDelay(y) ==
    AddU64(AddU64(AddU64(AddU64(y.packet_delay, Secs(1)), y.flush_interval),
                  Secs(COMMON_DELAY)),
           y.second_flow_extra_delay)

\* minute_quadruple_tolerable_delay
MinuteDelay(y) ==
    AddU64(AddU64(AddU64(AddU64(Secs(60), y.packet_delay), Secs(1)), y.flush_interval),
           Secs(COMMON_DELAY))

\* Collector::new(.., delay as u32 + COMMON_DELAY, ..) behind the flag test
CollectorOf(metrics_type, level, delay, checks) ==
    IF level \in metrics_type
    THEN [window |-> AddU32(AsU32(delay), Secs(COMMON_DELAY), checks)]
    ELSE None

NotBuilt == [built |-> FALSE]

\* the arguments of one run
CollectorArgs ==
    /\ overflow_checks \in BOOLEAN
    /\ col_in \in [packet_delay : PacketDelays,
                   flush_interval : SmallDelays,
                   second_flow_extra_delay : SmallDelays,
                   metrics_type : MetricsTypes]
    /\ col_out = NotBuilt

\* Components::new_collector
NewCollector ==
    /\ col_out = NotBuilt
    /\ col_out' =
         LET second == CollectorOf(col_in.metrics_type, "SECOND", SecondDelay(col_in),
                                   overflow_checks)
             minute == CollectorOf(col_in.metrics_type, "MINUTE", MinuteDelay(col_in),
                                   overflow_checks)
         IN  IF \/ second # None /\ second.window = Panicked
                \/ minute # None /\ minute.window = Panicked
             THEN [built |-> TRUE, panicked |-> TRUE]
             ELSE [built |-> TRUE, panicked |-> FALSE,
                   second_delay |-> SecondDelay(col_in),
                   minute_delay |-> MinuteDelay(col_in),
                   second_collector |-> second,
                   minute_collector |-> minute]
    /\ UNCHANGED <<overflow_checks, col_in>>
    /\ UNCHANGED <<pipeline_vars, watcher_vars, callback_vars, tap_vars, unit_vars, launch_vars,
                   event_vars>>

\* no collector is modelled
CollectorParked ==
    /\ overflow_checks = FALSE
    /\ col_in = [packet_delay |-> Secs(0), flush_interval |-> Secs(0),
                 second_flow_extra_delay |-> Secs(0), metrics_type |-> {}]
    /\ col_out = NotBuilt

-----------------------------------------------------------------------------
(* Components::new: the capture units and the per-unit vectors *)

\* NsFile::Root; the named namespace files are 1, 2, ... in their order
RootNs == 0

IfNames == {"eth0", "eth1"}

SrcInterfaceLists == UNION {[1..n -> IfNames] : n \in 0..MaxSrcNames}

\* NetNs::find_ns_files_by_regex: the matched files, each once, in any order
FoundNsLists ==
    {f \in UNION {[1..n -> 1..MaxNsFiles] : n \in 0..MaxNsFiles} :
        \A j, k \in DOMAIN f : f[j] = f[k] => j = k}

\* s with x inserted before the first element above it
RECURSIVE Insert(_, _)
Insert(x, s) ==
    IF s = << >> THEN <<x>>
    ELSE IF x <= Head(s) THEN <<x>> \o s
    ELSE <<Head(s)>> \o Insert(x, Tail(s))

\* mutant: the namespace files are taken in the order they were found
SortUnstable_Unsorted(s) == s

\* nss.sort_unstable()
RECURSIVE SortUnstable(_)
SortUnstable(s) ==
    IF s = << >> THEN << >> ELSE Insert(Head(s), SortUnstable(Tail(s)))

\* src_interfaces_and_namespaces
SrcInterfacesAndNamespaces(src_interfaces, extra_netns_regex, found) ==
    LET ifs == [j \in 1..Len(src_interfaces) |-> <<src_interfaces[j], RootNs>>]
        roots == IF ifs = << >> THEN << <<"", RootNs>> >> ELSE ifs
        nss == IF extra_netns_regex # "" THEN SortUnstable(found) ELSE << >>
    IN  roots \o [j \in 1..Len(nss) |-> <<"", nss[j]>>]

\* the first argument of Policy::new: the number of fast-path shards
PolicyQueues(src_interfaces) == Max(1, Len(src_interfaces))

\* what one kind of per-unit object is built with in iteration i of the loop
UnitObject(kind, units, j) ==
    [kind |-> kind, id |-> j - 1, src_interface |-> units[j][1], netns |-> units[j][2]]

\* the vector of one kind after the loop over the units
UnitVector(kind, units) == [j \in 1..Len(units) |-> UnitObject(kind, units, j)]

NotEnumerated == [built |-> FALSE]

\* the inputs of one enumeration
UnitArgs ==
    /\ units_in \in [src_interfaces : SrcInterfaceLists,
                     extra_netns_regex : {"", "ns.*"},
                     found : FoundNsLists]
    /\ units_out = NotEnumerated

\* Components::new, from Policy::new and the unit list to the end of the loop
\* over the units
EnumerateUnits ==
    /\ units_out = NotEnumerated
    /\ units_out' =
         LET units == SrcInterfacesAndNamespaces(units_in.src_interfaces,
                                                units_in.extra_netns_regex,
                                                units_in.found)
         IN  [built |-> TRUE,
              policy_queues |-> PolicyQueues(units_in.src_interfaces),
              units |-> units,
              dispatchers |-> UnitVector("dispatcher", units),
              dispatcher_listeners |-> UnitVector("dispatcher_listener", units),
              log_parsers |-> UnitVector("log_parser", units),
              packet_sequence_parsers |-> UnitVector("packet_sequence_parser", units),
              collectors |-> UnitVector("collector", units),
              handler_builders |-> UnitVector("handler_builder", units)]
    /\ UNCHANGED units_in
    /\ UNCHANGED <<pipeline_vars, watcher_vars, callback_vars, tap_vars, collector_vars,
                   launch_vars, event_vars>>

\* no enumeration is modelled
UnitsParked ==
    /\ units_in = [src_interfaces |-> << >>, extra_netns_regex |-> "", found |-> << >>]
    /\ units_out = NotEnumerated

-----------------------------------------------------------------------------
(* Trident::start *)

\* the ConfigError kinds: the one Trident::start singles out, and two others
ConfigErrors == {"YamlConfigInvalid", "ErrorA", "ErrorB"}

\* Config::load_from_file / RuntimeConfig::load_from_file on one file
LoadResults(file) ==
    {[ok |-> TRUE, file |-> file]}
    \cup {[ok |-> FALSE, file |-> file, error |-> e] : e \in ConfigErrors}

\* mutant: when the fallback fails too, its error is the one returned
LoadConfig_FallbackError(mode, primary, fallback) ==
    IF primary.ok
    THEN [config |-> primary, reads |-> <<primary.file>>]
    ELSE IF mode = "Managed" /\ primary.error = "YamlConfigInvalid"
         THEN [config |-> fallback, reads |-> <<primary.file, fallback.file>>]
         ELSE [config |-> primary, reads |-> <<primary.file>>]

\* `let config = match agent_mode { .. }`: the config taken or the error
\* returned, and the files read
LoadConfig(mode, primary, fallback) ==
    IF primary.ok
    THEN [config |-> primary, reads |-> <<primary.file>>]
    ELSE IF mode = "Managed" /\ primary.error = "YamlConfigInvalid"
         THEN [config |-> IF fallback.ok THEN fallback ELSE primary,
               reads |-> <<primary.file, fallback.file>>]
         ELSE [config |-> primary, reads |-> <<primary.file>>]

\* mutant: the stats collector is started in either mode
StatsCollectorStarted_Always(mode) == TRUE

\* `if matches!(config.agent_mode, RunningMode::Managed) { stats_collector.start() }`
StatsCollectorStarted(mode) == mode = "Managed"

NotLaunched == [done |-> FALSE]

\* the arguments of one call and what the files and the logger answer
LaunchArgs ==
    /\ launch_in \in [agent_mode : RunningModes,
                      primary : LoadResults("config_path"),
                      fallback : LoadResults("DEFAULT_TRIDENT_CONF_FILE"),
                      logger_ok : BOOLEAN]
    /\ launch_out = NotLaunched

\* Trident::start
TridentStart ==
    /\ launch_out = NotLaunched
    /\ launch_out' =
         LET loaded == LoadConfig(launch_in.agent_mode, launch_in.primary,
                                  launch_in.fallback)
         IN  IF ~loaded.config.ok
             THEN [done |-> TRUE, reads |-> loaded.reads, ok |-> FALSE,
                   error |-> [file |-> loaded.config.file, error |-> loaded.config.error],
                   stats_collector |-> FALSE, spawned |-> FALSE]
             ELSE IF ~launch_in.logger_ok
             THEN [done |-> TRUE, reads |-> loaded.reads, ok |-> FALSE,
                   error |-> [file |-> "log_file", error |-> "logger"],
                   stats_collector |-> FALSE, spawned |-> FALSE]
             ELSE [done |-> TRUE, reads |-> loaded.reads, ok |-> TRUE,
                   error |-> None,
                   stats_collector |-> StatsCollectorStarted(launch_in.agent_mode),
                   spawned |-> TRUE]
    /\ UNCHANGED launch_in
    /\ UNCHANGED <<pipeline_vars, watcher_vars, callback_vars, tap_vars, collector_vars,
                   unit_vars, event_vars>>

\* no call of Trident::start is modelled
LaunchParked ==
    /\ launch_in = [agent_mode |-> "Managed",
                    primary |-> [ok |-> TRUE, file |-> "config_path"],
                    fallback |-> [ok |-> TRUE, file |-> "DEFAULT_TRIDENT_CONF_FILE"],
                    logger_ok |-> TRUE]
    /\ launch_out = NotLaunched

-----------------------------------------------------------------------------
(* Trident::run and Components::new: what one ConfigChanged brings to the
   dispatcher listeners *)

\* blacklist: Vec<u64> of a ChangedConfig
Blacklists == {<< >>, <<"mac9">>}

\* Components::new, capture unit i: the first calls on its new listener
NewListenerCalls(conf, i) ==
    LET tap_interfaces == IF conf.listeners[i] # "Root"
                          THEN LinksOrEmpty(conf.ns_links)
                          ELSE LinksOrEmpty(conf.root_links)
    IN  <<[listener |-> i, call |-> "on_config_change",
           args |-> <<[tap_mode |-> conf.tap_mode]>>],
          [listener |-> i, call |-> "on_tap_interface_change",
           args |-> <<tap_interfaces, conf.if_mac_source, conf.trident_type, << >> >>],
          VmChange(i, conf)>>

\* the loop over the listeners that ends the Some arm of Trident::run
ListenerConfigChanges(conf) ==
    [i \in 1..Len(conf.listeners) |->
        [listener |-> i, call |-> "on_config_change",
         args |-> <<[tap_mode |-> conf.tap_mode]>>]]

\* the calls on the dispatcher listeners while one ConfigChanged is applied:
\* without a pipeline those of Components::new, with one those of
\* dispatcher_listener_callback and of the closing loop
ListenerCalls(pipeline, conf) ==
    IF pipeline = "None"
    THEN Flatten([i \in 1..Len(conf.listeners) |-> NewListenerCalls(conf, i)])
    ELSE DispatcherListenerCallback(conf) \o ListenerConfigChanges(conf)

\* one event: its blacklist, vm macs and tap types, the candidate dispatcher
\* config, the namespaces of the capture units (the first one is a root unit)
\* and what the interface lookups answer
EventArgs ==
    /\ ev_in \in
         {e \in [pipeline : {"None", "Some"},
                 conf : [tap_mode : CaptureModes \ {"Decap"},
                         if_mac_source : IfMacSources,
                         trident_type : {"TtProcess"},
                         blacklist : Blacklists,
                         vm_mac_addrs : {<<"mac1">>},
                         tap_types : {<<"tap3">>},
                         listeners : UNION {[1..m -> NetNs] : m \in 1..MaxListeners},
                         root_links : LinkResults("eth0"),
                         ns_links : LinkResults("veth1")]] :
            e.conf.listeners[1] = "Root"}
    /\ ev_out = NotRun

\* the supervisor applies the event
ApplyToListeners ==
    /\ ~ev_out.done
    /\ ev_out' = [done |-> TRUE, calls |-> ListenerCalls(ev_in.pipeline, ev_in.conf)]
    /\ UNCHANGED ev_in
    /\ UNCHANGED <<pipeline_vars, watcher_vars, callback_vars, tap_vars, collector_vars,
                   unit_vars, launch_vars>>

\* no event is modelled
EventParked ==
    /\ ev_in = [pipeline |-> "None"]
    /\ ev_out = [done |-> TRUE, calls |-> << >>]

-----------------------------------------------------------------------------
(* Initial state: Trident::start has returned, the supervisor thread is spawned *)

Init ==
    /\ state = Running
    /\ mutex = "free"
    /\ pc = "boot"
    /\ new_state = Running
    /\ components = None
    /\ yaml_conf = None
    /\ static_k8s \in {""} \cup ClusterIds
    /\ candidate_config = None
    /\ agent_mode \in RunningModes
    /\ guard = "new"
    /\ monitor = "new"
    /\ sync_started = FALSE
    /\ stats_collector = StatsCollectorStarted(agent_mode)
    /\ new_calls = 0
    /\ trace = << >>
    /\ calls = << >>
    /\ applied = << >>
    /\ exit_code = "none"
    /\ stop_called = FALSE
    /\ joined = FALSE
    /\ WatcherParked
    /\ CallbackParked
    /\ TapCacheNew
    /\ CollectorParked
    /\ UnitsParked
    /\ LaunchParked
    /\ EventParked

-----------------------------------------------------------------------------
(* Writers of the State cell *)

\* mutant: the writer forgets cond.notify_one
Notified_Lost == pc

\* Condvar::notify_one: wakes the supervisor if it is blocked in cond.wait
Notified == IF pc = "wait" THEN "woken" ELSE pc

\* the Synchronizer posts a state: lock, write, notify, unlock (the posts
\* considered are those made before Trident::stop publishes Terminated)
SyncPost(s) ==
    /\ sync_started
    /\ ~stop_called
    /\ exit_code = "none"
    /\ mutex = "free"
    /\ state' = s
    /\ pc' = Notified
    /\ UNCHANGED <<mutex, new_state, components, yaml_conf, static_k8s,
                   candidate_config, agent_mode, guard, monitor, sync_started,
                   new_calls, trace, calls, exit_code, stop_called, joined>>
    /\ UNCHANGED <<applied, stats_collector, watcher_vars, callback_vars, tap_vars,
                   collector_vars, unit_vars, launch_vars, event_vars>>

\* Trident::stop up to the join: lock, write Terminated, notify_one, unlock
StopPublish ==
    /\ ~stop_called
    /\ exit_code = "none"
    /\ mutex = "free"
    /\ state' = Terminated
    /\ pc' = Notified
    /\ stop_called' = TRUE
    /\ UNCHANGED <<mutex, new_state, components, yaml_conf, static_k8s,
                   candidate_config, agent_mode, guard, monitor, sync_started,
                   new_calls, trace, calls, exit_code, joined>>
    /\ UNCHANGED <<applied, stats_collector, watcher_vars, callback_vars, tap_vars,
                   collector_vars, unit_vars, launch_vars, event_vars>>

\* Trident::stop: handle.join() returns once the supervisor thread has returned
StopJoin ==
    /\ stop_called
    /\ ~joined
    /\ pc = "returned"
    /\ joined' = TRUE
    /\ UNCHANGED <<state, mutex, pc, new_state, components, yaml_conf, static_k8s,
                   candidate_config, agent_mode, guard, monitor, sync_started,
                   new_calls, trace, calls, exit_code, stop_called>>
    /\ UNCHANGED <<applied, stats_collector, watcher_vars, callback_vars, tap_vars,
                   collector_vars, unit_vars, launch_vars, event_vars>>

-----------------------------------------------------------------------------
(* The supervisor thread: Trident::run *)

\* boot sequence up to the first lock of the cell; Monitor::new may fail, and
\* the error makes the spawning closure call process::exit(1)
Boot(monitor_ok) ==
    /\ pc = "boot"
    /\ sync_started' = TRUE
    /\ guard' = "started"
    /\ IF monitor_ok
       THEN /\ monitor' = "started"
            /\ pc' = "lock"
            /\ exit_code' = exit_code
       ELSE /\ monitor' = monitor
            /\ pc' = "exited"
            /\ exit_code' = "1"
    /\ UNCHANGED <<state, mutex, new_state, components, yaml_conf, static_k8s,
                   candidate_config, agent_mode, new_calls, trace, calls,
                   stop_called, joined>>
    /\ UNCHANGED <<applied, stats_collector, watcher_vars, callback_vars, tap_vars,
                   collector_vars, unit_vars, launch_vars, event_vars>>

\* state.lock(): before the loop and at the end of each applied ConfigChanged
Lock ==
    /\ pc = "lock"
    /\ mutex = "free"
    /\ mutex' = "run"
    /\ pc' = "loop"
    /\ trace' = << >>
    /\ calls' = << >>
    /\ applied' = << >>
    /\ UNCHANGED <<state, new_state, components, yaml_conf, static_k8s,
                   candidate_config, agent_mode, guard, monitor, sync_started,
                   new_calls, exit_code, stop_called, joined>>
    /\ UNCHANGED <<stats_collector, watcher_vars, callback_vars, tap_vars,
                   collector_vars, unit_vars, launch_vars, event_vars>>

\* cond.wait returns: woken by a notify, the supervisor takes the mutex again
Wake ==
    /\ pc = "woken"
    /\ mutex = "free"
    /\ mutex' = "run"
    /\ pc' = "loop"
    /\ trace' = << >>
    /\ calls' = << >>
    /\ applied' = << >>
    /\ UNCHANGED <<state, new_state, components, yaml_conf, static_k8s,
                   candidate_config, agent_mode, guard, monitor, sync_started,
                   new_calls, exit_code, stop_called, joined>>
    /\ UNCHANGED <<stats_collector, watcher_vars, callback_vars, tap_vars,
                   collector_vars, unit_vars, launch_vars, event_vars>>

\* Condvar::wait may wake without a notify
SpuriousWake ==
    /\ pc = "wait"
    /\ pc' = "woken"
    /\ UNCHANGED <<state, mutex, new_state, components, yaml_conf, static_k8s,
                   candidate_config, agent_mode, guard, monitor, sync_started,
                   new_calls, trace, calls, exit_code, stop_called, joined>>
    /\ UNCHANGED <<applied, stats_collector, watcher_vars, callback_vars, tap_vars,
                   collector_vars, unit_vars, launch_vars, event_vars>>

\* State::Running arm: cond.wait releases the mutex and blocks
OnRunning ==
    /\ pc = "loop"
    /\ state.kind = "Running"
    /\ mutex' = "free"
    /\ pc' = "wait"
    /\ UNCHANGED <<state, new_state, components, yaml_conf, static_k8s,
                   candidate_config, agent_mode, guard, monitor, sync_started,
                   new_calls, trace, calls, exit_code, stop_called, joined>>
    /\ UNCHANGED <<applied, stats_collector, watcher_vars, callback_vars, tap_vars,
                   collector_vars, unit_vars, launch_vars, event_vars>>

\* State::Terminated arm: stop the pipeline, the guard and the monitor, return
\* (the Components value is moved out and dropped at the return; the model
\* keeps its final value in `components`)
OnTerminated ==
    /\ pc = "loop"
    /\ state.kind = "Terminated"
    /\ IF components # None
       THEN LET r == ComponentsStop(components)
            IN  /\ components' = r.comp
                /\ calls' = r.calls
                /\ guard' = "stopped"
                /\ monitor' = "stopped"
                /\ trace' = <<"Terminated", "components.stop", "guard.stop",
                              "monitor.stop", "return">>
       ELSE /\ UNCHANGED <<components, guard, monitor>>
            /\ calls' = << >>
            /\ trace' = <<"Terminated", "return">>
    /\ mutex' = "free"
    /\ pc' = "returned"
    /\ UNCHANGED <<state, new_state, yaml_conf, static_k8s, candidate_config,
                   agent_mode, sync_started, new_calls, exit_code, stop_called,
                   joined>>
    /\ UNCHANGED <<applied, stats_collector, watcher_vars, callback_vars, tap_vars,
                   collector_vars, unit_vars, launch_vars, event_vars>>

\* State::Disabled arm: stop the pipeline in place, then cond.wait
OnDisabled ==
    /\ pc = "loop"
    /\ state.kind = "Disabled"
    /\ IF components # None
       THEN LET r == ComponentsStop(components)
            IN  /\ components' = r.comp
                /\ calls' = r.calls
                /\ trace' = <<"Disabled", "components.stop", "wait">>
       ELSE /\ UNCHANGED components
            /\ calls' = << >>
            /\ trace' = <<"Disabled", "wait">>
    /\ mutex' = "free"
    /\ pc' = "wait"
    /\ UNCHANGED <<state, new_state, yaml_conf, static_k8s, candidate_config,
                   agent_mode, guard, monitor, sync_started, new_calls, exit_code,
                   stop_called, joined>>
    /\ UNCHANGED <<applied, stats_collector, watcher_vars, callback_vars, tap_vars,
                   collector_vars, unit_vars, launch_vars, event_vars>>

\* mutant: the match has no arm for Disabled
MatchedArms_NoDisabled == {"Running", "Terminated"}

\* the states the match at the top of the loop has an arm for; `_ => ()`
\* lets every other state through to the swap
MatchedArms == {"Running", "Terminated", "Disabled"}

\* mutant: the payload is cloned out of the cell instead of swapped out
Swap_KeepsCell ==
    /\ pc = "loop"
    /\ state.kind \notin MatchedArms
    /\ new_state' = state
    /\ state' = state
    /\ mutex' = "free"
    /\ pc' = "apply"
    /\ UNCHANGED <<components, yaml_conf, static_k8s, candidate_config, agent_mode,
                   guard, monitor, sync_started, new_calls, trace, calls, exit_code,
                   stop_called, joined>>
    /\ UNCHANGED <<applied, stats_collector, watcher_vars, callback_vars, tap_vars,
                   collector_vars, unit_vars, launch_vars, event_vars>>

\* any other state: swap Running into the cell and drop the mutex guard
Swap ==
    /\ pc = "loop"
    /\ state.kind \notin MatchedArms
    /\ new_state' = state
    /\ state' = Running
    /\ mutex' = "free"
    /\ pc' = "apply"
    /\ UNCHANGED <<components, yaml_conf, static_k8s, candidate_config, agent_mode,
                   guard, monitor, sync_started, new_calls, trace, calls, exit_code,
                   stop_called, joined>>
    /\ UNCHANGED <<applied, stats_collector, watcher_vars, callback_vars, tap_vars,
                   collector_vars, unit_vars, launch_vars, event_vars>>

\* mutant: every ConfigChanged after the first is taken for a yaml change
YamlChanged_Always(cfg) == yaml_conf # None

\* the yaml_config of the event differs from the stored one
YamlChanged(cfg) == yaml_conf # None /\ yaml_conf # cfg.runtime_config.yaml_config

\* mutant: the restart path exits without stopping the pipeline
ApplyRestart_NoStop ==
    /\ calls' = << >>
    /\ trace' = <<"ConfigChanged", "warn">>
    /\ components' = None
    /\ pc' = "sleep"
    /\ UNCHANGED <<yaml_conf, static_k8s, candidate_config, new_calls>>

\* yaml_config changed: take and stop the pipeline, warn; sleep and exit follow
ApplyRestart ==
    /\ IF components # None
       THEN /\ calls' = ComponentsStop(components).calls
            /\ trace' = <<"ConfigChanged", "components.stop", "warn">>
       ELSE /\ calls' = << >>
            /\ trace' = <<"ConfigChanged", "warn">>
    /\ components' = None
    /\ pc' = "sleep"
    /\ UNCHANGED <<yaml_conf, static_k8s, candidate_config, new_calls>>

\* no pipeline yet: Components::new, start, parse_tap_type, callbacks
ApplyBuild(cfg, k8s, cand, mem_ok, netns, ebpf_ok) ==
    LET built == ComponentsNew(cand, agent_mode, netns, ebpf_ok, new_calls + 1)
        started == ComponentsStart(built.comp, mem_ok)
    IN  /\ components' = started.comp
        /\ new_calls' = new_calls + 1
        /\ calls' = built.calls \o started.calls
        /\ trace' = <<"ConfigChanged", "on_config", "Components::new",
                      "components.start">>
                    \o Opt(cand.tap_mode = "Analyzer", <<"parse_tap_type">>)
                    \o <<"callbacks">>

\* mutant: the pipeline is rebuilt for every ConfigChanged
ApplyHot_Rebuild(cfg, k8s, cand, mem_ok) ==
    ApplyBuild(cfg, k8s, cand, mem_ok, 0, FALSE)

\* mutant: the hot path forgets components.start()
ApplyHot_NoStart(cfg, k8s, cand, mem_ok) ==
    /\ components' = [components EXCEPT !.config = cand]
    /\ new_calls' = new_calls
    /\ calls' = << >>
    /\ trace' = <<"ConfigChanged", "on_config", "dispatcher_listener_callback",
                  "callbacks", "on_config_change">>

\* pipeline exists: start, replace its config, update the listeners
ApplyHot(cfg, k8s, cand, mem_ok) ==
    LET started == ComponentsStart(components, mem_ok)
    IN  /\ components' = [started.comp EXCEPT !.config = cand]
        /\ new_calls' = new_calls
        /\ calls' = started.calls
        /\ trace' = <<"ConfigChanged", "on_config", "components.start",
                      "dispatcher_listener_callback", "callbacks",
                      "on_config_change">>

\* one step of the loop body: an operation, the listener or callback it is
\* for, and the value it is given (for components.start: what became of
\* free_memory_check, or "returned" when the running guard returned early)
Step(op, i, arg) == [op |-> op, i |-> i, arg |-> arg]

\* config_handler.candidate_config.dispatcher
DispatcherConfig(cand) == [tap_mode |-> cand.tap_mode]

\* for callback in callbacks { callback(&config_handler, components) }
CallbackSteps(ncb) == [j \in 1..ncb |-> Step("callback", j - 1, None)]

\* for listener in components.dispatcher_listeners.iter_mut()
OnConfigChangeSteps(c, cand) ==
    [j \in 1..c.units |-> Step("on_config_change", j - 1, DispatcherConfig(cand))]

\* mutant: the callbacks are fired on the pipeline before it is started
BuildSteps_CallbacksFirst(cfg, cand, ncb, check, built) ==
    <<Step("yaml_conf", 0, cfg.runtime_config.yaml_config),
      Step("on_config", 0, None),
      Step("Components::new", 0, Returned(built))>>
    \o CallbackSteps(ncb)
    \o <<Step("components.start", 0, [free_memory_check |-> check])>>
    \o Opt(cand.tap_mode = "Analyzer", <<Step("parse_tap_type", 0, None)>>)
    \o <<Step("components.replace", 0, None)>>

\* from the yaml_config check to the relock, no pipeline yet
BuildSteps(cfg, cand, ncb, check, built) ==
    <<Step("yaml_conf", 0, cfg.runtime_config.yaml_config),
      Step("on_config", 0, None),
      Step("Components::new", 0, Returned(built)),
      Step("components.start", 0, [free_memory_check |-> check])>>
    \o Opt(cand.tap_mode = "Analyzer", <<Step("parse_tap_type", 0, None)>>)
    \o CallbackSteps(ncb)
    \o <<Step("components.replace", 0, None)>>

\* mutant: the listeners get the dispatcher config before the callbacks run
HotSteps_ListenersFirst(c, cfg, cand, ncb, check) ==
    <<Step("yaml_conf", 0, cfg.runtime_config.yaml_config),
      Step("on_config", 0, None),
      Step("components.start", 0, [free_memory_check |-> check]),
      Step("components.config", 0, cand),
      Step("dispatcher_listener_callback", 0, DispatcherConfig(cand))>>
    \o OnConfigChangeSteps(c, cand)
    \o CallbackSteps(ncb)

\* from the yaml_config check to the relock, the pipeline exists
HotSteps(c, cfg, cand, ncb, check) ==
    <<Step("yaml_conf", 0, cfg.runtime_config.yaml_config),
      Step("on_config", 0, None),
      Step("components.start", 0, [free_memory_check |-> check]),
      Step("components.config", 0, cand),
      Step("dispatcher_listener_callback", 0, DispatcherConfig(cand))>>
    \o CallbackSteps(ncb)
    \o OnConfigChangeSteps(c, cand)

\* panic!("not config type"): the supervisor thread unwinds
Panic == [panic |-> "not config type"]

\* State::unwrap_config
UnwrapConfig(s) == IF s.kind = "ConfigChanged" THEN s.config ELSE Panic

\* the loop body reads only some of its inputs: the outcome of the memory
\* check and the callbacks when it goes on to start the pipeline, the
\* namespace files and the eBPF probe when it builds one; an input that is
\* not read is given once, with its first value
InputsRead(mem_ok, netns, ebpf_ok, ncb) ==
    LET cfg == UnwrapConfig(new_state)
        starts == cfg # Panic /\ ~YamlChanged(cfg)
        builds == starts /\ components = None
    IN  /\ starts \/ (mem_ok /\ ncb = 0)
        /\ builds \/ (netns = 0 /\ ~ebpf_ok)

\* the body of the loop after the swap: unwrap_config, then the payload
Apply(mem_ok, netns, ebpf_ok, ncb) ==
    /\ pc = "apply"
    /\ InputsRead(mem_ok, netns, ebpf_ok, ncb)
    /\ LET cfg == UnwrapConfig(new_state)
       IN  IF cfg = Panic
           THEN /\ pc' = "panicked"
                /\ UNCHANGED <<components, yaml_conf, static_k8s, candidate_config,
                               new_calls, trace, calls, applied>>
           ELSE IF YamlChanged(cfg)
           THEN ApplyRestart /\ applied' = << >>
           ELSE LET k8s == IF cfg.kubernetes_cluster_id # NoClusterId
                           THEN cfg.kubernetes_cluster_id
                           ELSE static_k8s
                    cand == OnConfig(cfg.runtime_config, k8s)
                IN  /\ yaml_conf' = cfg.runtime_config.yaml_config
                    /\ static_k8s' = k8s
                    /\ candidate_config' = cand
                    /\ IF components = None
                       THEN /\ ApplyBuild(cfg, k8s, cand, mem_ok, netns, ebpf_ok)
                            /\ applied' =
                                 LET built == ComponentsNew(cand, agent_mode, netns,
                                                            ebpf_ok, new_calls + 1).comp
                                 IN  BuildSteps(cfg, cand, ncb,
                                                ComponentsStart(built, mem_ok).check,
                                                built)
                       ELSE /\ ApplyHot(cfg, k8s, cand, mem_ok)
                            /\ applied' =
                                 HotSteps(components, cfg, cand, ncb,
                                          ComponentsStart(components, mem_ok).check)
                    /\ pc' = "lock"
    /\ new_state' = Running
    /\ UNCHANGED <<state, mutex, agent_mode, guard, monitor, sync_started,
                   exit_code, stop_called, joined>>
    /\ UNCHANGED <<stats_collector, watcher_vars, callback_vars, tap_vars,
                   collector_vars, unit_vars, launch_vars, event_vars>>

\* thread::sleep(1 s), then process::exit(NORMAL_EXIT_WITH_RESTART)
RestartExit ==
    /\ pc = "sleep"
    /\ pc' = "exited"
    /\ exit_code' = "NORMAL_EXIT_WITH_RESTART"
    /\ trace' = trace \o <<"sleep", "exit">>
    /\ UNCHANGED <<state, mutex, new_state, components, yaml_conf, static_k8s,
                   candidate_config, agent_mode, guard, monitor, sync_started,
                   new_calls, calls, stop_called, joined>>
    /\ UNCHANGED <<applied, stats_collector, watcher_vars, callback_vars, tap_vars,
                   collector_vars, unit_vars, launch_vars, event_vars>>

\* one step of the supervisor thread
Supervisor ==
    \/ \E monitor_ok \in BOOLEAN : Boot(monitor_ok)
    \/ Lock
    \/ Wake
    \/ OnRunning
    \/ OnTerminated
    \/ OnDisabled
    \/ Swap
    \/ \E mem_ok \in BOOLEAN, netns \in 0..MaxNetns, ebpf_ok \in BOOLEAN,
          ncb \in 0..MaxCallbacks :
            Apply(mem_ok, netns, ebpf_ok, ncb)
    \/ RestartExit

Next ==
    \/ Supervisor
    \/ SpuriousWake
    \/ \E s \in {Running, Disabled} \cup {ConfigChanged(c) : c \in PostedConfigs} :
            SyncPost(s)
    \/ StopPublish
    \/ StopJoin

Spec == Init /\ [][Next]_vars

\* The OS schedules the supervisor thread and the thread inside Trident::stop:
\* a step of either that stays possible is eventually taken.  Every supervisor
\* step leaves its pc location, and the handlers of Terminated, Disabled and
\* of a swapped-out payload are possible exactly at their locations, so weak
\* fairness of those three is stated as "the supervisor does not stay there".
FairSpec ==
    /\ Spec
    /\ WF_vars(\E monitor_ok \in BOOLEAN : Boot(monitor_ok))
    /\ WF_vars(Lock)
    /\ WF_vars(Wake)
    /\ WF_vars(OnRunning)
    /\ WF_vars(Swap)
    /\ WF_vars(RestartExit)
    /\ WF_vars(StopJoin)
    /\ []<>~(pc = "loop" /\ state.kind \in {"Terminated", "Disabled"})
    /\ []<>(pc # "apply")

-----------------------------------------------------------------------------
(* The controller watcher and the listener callback on their own *)

\* the supervisor is not modelled: it stays before its boot sequence
PipelineParked ==
    /\ state = Running
    /\ mutex = "free"
    /\ pc = "boot"
    /\ new_state = Running
    /\ components = None
    /\ yaml_conf = None
    /\ static_k8s = ""
    /\ candidate_config = None
    /\ agent_mode = "Managed"
    /\ guard = "new"
    /\ monitor = "new"
    /\ sync_started = FALSE
    /\ stats_collector = StatsCollectorStarted(agent_mode)
    /\ new_calls = 0
    /\ trace = << >>
    /\ calls = << >>
    /\ applied = << >>
    /\ exit_code = "none"
    /\ stop_called = FALSE
    /\ joined = FALSE

\* a polling round of thread t, lookup_host answering anything
WatcherPoll(t) ==
    \E results \in [1..listener.domain_names -> Lookups] : WatcherRound(t, results)

WatcherInit ==
    /\ ListenerNew /\ PipelineParked /\ CallbackParked /\ TapCacheNew
    /\ CollectorParked /\ UnitsParked /\ LaunchParked /\ EventParked

\* the pipeline calls start and stop on the listener in any order; the watcher
\* threads run on their own
WatcherNext ==
    \/ DnlStart
    \/ DnlStop
    \/ DnlJoin
    \/ \E t \in 1..MaxSpawns : WatcherCheck(t)
    \/ \E t \in 1..MaxSpawns : WatcherPoll(t)

WatcherSpec == WatcherInit /\ [][WatcherNext]_vars

\* the supervisor with a Synchronizer that posts the payloads ClusterIdPosts
ClusterIdNext ==
    \/ Supervisor
    \/ SpuriousWake
    \/ \E s \in {Running, Disabled} \cup {ConfigChanged(c) : c \in ClusterIdPosts} :
            SyncPost(s)
    \/ StopPublish
    \/ StopJoin

ClusterIdSpec == Init /\ [][ClusterIdNext]_vars

\* the Synchronizer is not stopped by Trident::stop: it posts on, up to the
\* return of the supervisor, like SyncPost before the stop
LatePost(s) ==
    /\ sync_started
    /\ stop_called
    /\ pc # "returned"
    /\ exit_code = "none"
    /\ mutex = "free"
    /\ state' = s
    /\ pc' = Notified
    /\ UNCHANGED <<mutex, new_state, components, yaml_conf, static_k8s,
                   candidate_config, agent_mode, guard, monitor, sync_started,
                   new_calls, trace, calls, exit_code, stop_called, joined>>
    /\ UNCHANGED <<applied, stats_collector, watcher_vars, callback_vars, tap_vars,
                   collector_vars, unit_vars, launch_vars, event_vars>>

\* the supervisor, Trident::stop and a Synchronizer that posts before and
\* after the stop
LatePostNext ==
    \/ Supervisor
    \/ SpuriousWake
    \/ \E s \in {Running, Disabled} \cup {ConfigChanged(c) : c \in PostedConfigs} :
            SyncPost(s)
    \/ \E s \in {Running, Disabled} \cup {ConfigChanged(c) : c \in PostedConfigs} :
            LatePost(s)
    \/ StopPublish
    \/ StopJoin

\* scheduled as in FairSpec
LatePostSpec ==
    /\ Init
    /\ [][LatePostNext]_vars
    /\ WF_vars(\E monitor_ok \in BOOLEAN : Boot(monitor_ok))
    /\ WF_vars(Lock)
    /\ WF_vars(Wake)
    /\ WF_vars(OnRunning)
    /\ WF_vars(Swap)
    /\ WF_vars(RestartExit)
    /\ WF_vars(StopJoin)
    /\ []<>~(pc = "loop" /\ state.kind \in {"Terminated", "Disabled"})
    /\ []<>(pc # "apply")

CallbackInit ==
    /\ CallbackArgs /\ PipelineParked /\ WatcherParked /\ TapCacheNew
    /\ CollectorParked /\ UnitsParked /\ LaunchParked /\ EventParked

CallbackNext == RunCallback

CallbackSpec == CallbackInit /\ [][CallbackNext]_vars

TapTypeInit ==
    /\ TapCacheNew /\ PipelineParked /\ WatcherParked /\ CallbackParked
    /\ CollectorParked /\ UnitsParked /\ LaunchParked /\ EventParked

\* the supervisor and the listener callback hand any list to parse_tap_type
TapTypeNext == \E tap_types \in TapTypeLists : ParseTapTypeCall(tap_types)

TapTypeSpec == TapTypeInit /\ [][TapTypeNext]_vars

CollectorInit ==
    /\ CollectorArgs /\ PipelineParked /\ WatcherParked /\ CallbackParked
    /\ TapCacheNew /\ UnitsParked /\ LaunchParked /\ EventParked

CollectorNext == NewCollector

CollectorSpec == CollectorInit /\ [][CollectorNext]_vars

UnitsInit ==
    /\ UnitArgs /\ PipelineParked /\ WatcherParked /\ CallbackParked
    /\ TapCacheNew /\ CollectorParked /\ LaunchParked /\ EventParked

UnitsNext == EnumerateUnits

UnitsSpec == UnitsInit /\ [][UnitsNext]_vars

LaunchInit ==
    /\ LaunchArgs /\ PipelineParked /\ WatcherParked /\ CallbackParked
    /\ TapCacheNew /\ CollectorParked /\ UnitsParked /\ EventParked

LaunchNext == TridentStart

LaunchSpec == LaunchInit /\ [][LaunchNext]_vars

ListenerInputInit ==
    /\ EventArgs /\ PipelineParked /\ WatcherParked /\ CallbackParked
    /\ TapCacheNew /\ CollectorParked /\ UnitsParked /\ LaunchParked

ListenerInputNext == ApplyToListeners

ListenerInputSpec == ListenerInputInit /\ [][ListenerInputNext]_vars

-----------------------------------------------------------------------------
(* Shorthands used by the properties *)

RestartCode == "NORMAL_EXIT_WITH_RESTART"

PipelineStopped == components = None \/ ~components.running

\* the supervisor applies the payload it swapped out of the cell
ApplyStep == pc = "apply" /\ pc' # "apply"

\* that payload carries the stored yaml_config / a different one
SameYamlTaken ==
    yaml_conf # None /\ new_state.config.runtime_config.yaml_config = yaml_conf

OtherYamlTaken ==
    yaml_conf # None /\ new_state.config.runtime_config.yaml_config # yaml_conf

-----------------------------------------------------------------------------
(* C1 *)

\* C1 (as claimed): once Trident::stop has published Terminated to a
\* supervisor that finished its boot sequence, the supervisor eventually
\* observes it, stops the pipeline and returns, and the join completes.
C1_Original ==
    (stop_called /\ monitor = "started") ~> (joined /\ PipelineStopped)

\* C1 (amended): ... the supervisor eventually returns with the pipeline
\* stopped and the join completes, unless a ConfigChanged with a differing
\* yaml_config was swapped out of the cell first, in which case the process
\* exits with the restart code instead.
C1_Terminates ==
    (stop_called /\ monitor = "started")
        ~> ((joined /\ PipelineStopped) \/ exit_code = RestartCode)

\* a pipeline was built, Terminated was observed, the join returned
C1_Witness ==
    joined /\ components # None /\ ~components.running /\ trace[1] = "Terminated"

-----------------------------------------------------------------------------
(* C2 *)

\* C2: applying a ConfigChanged whose yaml_config equals the stored one (that
\* of the previously applied ConfigChanged) exits nothing and builds nothing:
\* the supervisor keeps the very same Components instance.
C2_SameInstance ==
    [][(ApplyStep /\ SameYamlTaken)
        => /\ pc' = "lock"
           /\ exit_code' = "none"
           /\ new_calls' = new_calls
           /\ components # None
           /\ components' # None
           /\ components'.id = components.id]_vars

\* a second ConfigChanged with the same yaml_config has been applied to a
\* running pipeline
C2_Witness ==
    /\ pc = "lock"
    /\ "on_config_change" \in Range(trace)
    /\ calls = << >>
    /\ new_calls = 1

-----------------------------------------------------------------------------
(* C3 *)

\* C3: a ConfigChanged whose yaml_config differs from the stored one makes the
\* supervisor stop the pipeline, then sleep, then exit with
\* NORMAL_EXIT_WITH_RESTART; in between it fires no callback, builds no
\* pipeline and pushes nothing to the listeners, and the stored yaml_config
\* is never replaced.  The first ConfigChanged never takes this path.
C3_RestartPath ==
    /\ [][(ApplyStep /\ OtherYamlTaken)
            => /\ pc' = "sleep"
               /\ components # None
               /\ components' = None
               /\ trace' = <<"ConfigChanged", "components.stop", "warn">>
               /\ calls' = (IF components.running THEN StopBody(components) ELSE << >>)
               /\ new_calls' = new_calls
               /\ yaml_conf' = yaml_conf]_vars
    /\ [][(pc = "sleep")
            => /\ pc' \in {"sleep", "exited"}
               /\ pc' = "exited" =>
                    /\ exit_code' = RestartCode
                    /\ trace' = <<"ConfigChanged", "components.stop", "warn",
                                  "sleep", "exit">>
               /\ UNCHANGED <<components, new_calls, calls, yaml_conf>>]_vars
    /\ [][(ApplyStep /\ yaml_conf = None) => pc' = "lock" /\ new_calls' = 1]_vars
    /\ [](exit_code = RestartCode => new_calls >= 1)
    /\ (pc = "sleep") ~> (exit_code = RestartCode)

\* the restart path was taken for a pipeline that Disabled had already stopped
C3_Witness ==
    /\ exit_code = RestartCode
    /\ "components.stop" \in Range(trace)
    /\ calls = << >>

-----------------------------------------------------------------------------
(* C4 *)

\* C4: Components::new is invoked only while the supervisor holds no
\* Components, and at most once per process.
C4_OneInstance ==
    /\ [](new_calls <= 1)
    /\ [][new_calls' # new_calls
            => /\ components = None
               /\ new_calls' = new_calls + 1
               /\ components' # None
               /\ components'.id = new_calls']_vars

\* the pipeline has just been built by the first ConfigChanged
C4_Witness ==
    /\ pc = "lock"
    /\ "Components::new" \in Range(trace)
    /\ new_calls = 1
    /\ components # None

-----------------------------------------------------------------------------
(* C5 *)

\* C5: Components::start and Components::stop are idempotent through the
\* running flag: on every instance the supervisor can hold, a second start
\* (stop) right after a first makes no call and changes nothing; stop on a
\* freshly built instance does nothing; and where the supervisor itself calls
\* start on a running instance or stop on a stopped one, no component is
\* called and the instance is unchanged.
C5_Idempotent ==
    /\ [](components # None =>
            \A m1, m2 \in BOOLEAN :
                LET s1 == ComponentsStart(components, m1)
                    s2 == ComponentsStart(s1.comp, m2)
                    t1 == ComponentsStop(components)
                    t2 == ComponentsStop(t1.comp)
                IN  /\ s2.calls = << >>
                    /\ s2.comp = s1.comp
                    /\ t2.calls = << >>
                    /\ t2.comp = t1.comp)
    /\ [](state.kind = "ConfigChanged" =>
            \A netns \in 0..MaxNetns, ebpf_ok \in BOOLEAN :
                LET fresh == ComponentsNew(OnConfig(state.config.runtime_config, static_k8s),
                                           agent_mode, netns, ebpf_ok, 1).comp
                IN  ComponentsStop(fresh) = [comp |-> fresh, calls |-> << >>])
    /\ [][(ApplyStep /\ SameYamlTaken /\ components # None /\ components.running)
            => /\ calls' = << >>
               /\ components'.running
               /\ components'.last = components.last]_vars
    /\ [][(/\ pc = "loop"
           /\ pc' # "loop"
           /\ state.kind \in {"Disabled", "Terminated"}
           /\ components # None
           /\ ~components.running)
            => /\ calls' = << >>
               /\ components' = components]_vars

\* Terminated was handled for a pipeline that Disabled had already stopped:
\* the second consecutive stop called nothing
C5_Witness ==
    /\ pc = "returned"
    /\ components # None
    /\ "components.stop" \in Range(trace)
    /\ calls = << >>

-----------------------------------------------------------------------------
(* C6 *)

\* C6: handling Disabled stops the pipeline in place (the same Components is
\* kept, with running = false), neither returns nor exits, and ends in
\* cond.wait; when the pipeline is already stopped no component is called.
C6_Disabled ==
    [][(pc = "loop" /\ pc' # "loop" /\ state.kind = "Disabled")
        => /\ pc' = "wait"
           /\ mutex' = "free"
           /\ exit_code' = "none"
           /\ new_calls' = new_calls
           /\ components = None => components' = None /\ calls' = << >>
           /\ components # None =>
                /\ components' # None
                /\ components'.id = components.id
                /\ ~components'.running
                /\ calls' = (IF components.running THEN StopBody(components) ELSE << >>)
                /\ \A i \in 1..Len(calls') : calls'[i].op = "stop"]_vars

\* Disabled was observed again while the pipeline was already stopped
C6_Witness ==
    /\ pc = "wait"
    /\ trace = <<"Disabled", "components.stop", "wait">>
    /\ calls = << >>
    /\ components # None

-----------------------------------------------------------------------------
(* C7 *)

\* C7 (as claimed): a ConfigChanged with unchanged yaml_config applied to a
\* pipeline stopped by Disabled constructs a new Components for it.
C7_Original ==
    [][(ApplyStep /\ SameYamlTaken /\ components # None /\ ~components.running)
        => /\ new_calls' = new_calls + 1
           /\ components'.id # components.id
           /\ components'.running]_vars

\* C7 (amended): ... the stopped Components instance is started again
\* (Components::start passes the running guard and its components receive
\* start); no new Components is constructed.
C7_Restarted ==
    [][(ApplyStep /\ SameYamlTaken /\ components # None /\ ~components.running)
        => /\ pc' = "lock"
           /\ new_calls' = new_calls
           /\ components'.id = components.id
           /\ components'.running
           /\ calls' # << >>
           /\ \A i \in 1..Len(calls') : calls'[i].op = "start"]_vars

\* a ConfigChanged has re-enabled a pipeline that Disabled had stopped
C7_Witness ==
    /\ pc = "lock"
    /\ "on_config_change" \in Range(trace)
    /\ calls # << >>
    /\ components.running

-----------------------------------------------------------------------------
(* C8 *)

\* C8: whenever the supervisor has handled Terminated and returned, the
\* pipeline (if any) is stopped and the Guard and the Monitor started in the
\* boot sequence are stopped, also when no ConfigChanged was ever applied.
C8_Claim ==
    pc = "returned" => (PipelineStopped /\ guard = "stopped" /\ monitor = "stopped")

-----------------------------------------------------------------------------
(* C9 *)

\* the poller is started through the platform synchronizer and has no stop of
\* its own in Components::stop
Poller == <<"kubernetes_poller", 0>>

\* C9: after Terminated was handled for a running pipeline no component is
\* left started and none was stopped twice by that Components::stop; and no
\* component ever receives the same call (start, start or stop, stop) twice
\* in a row.
C9_Claim ==
    /\ (pc = "returned" /\ components # None /\ calls # << >>) =>
            \A c \in DOMAIN components.last \ {Poller} :
                /\ components.last[c] # "start"
                /\ Cardinality({i \in 1..Len(calls) : calls[i].c = c}) <= 1
    /\ \A i \in 1..Len(calls) :
            calls[i].c # Poller => calls[i].op # calls[i].prev

-----------------------------------------------------------------------------
(* C10 *)

\* position of the call to component c in the call sequence cs (0: not called)
PosIn(cs, c) ==
    IF \E i \in 1..Len(cs) : cs[i].c = c
    THEN CHOOSE i \in 1..Len(cs) : cs[i].c = c
    ELSE 0

\* C10: in a Components::stop that passes the running guard, every producer
\* into a queue is stopped before the consumer that drains the queue.
C10_Claim ==
    (components # None /\ calls # << >> /\ calls[1].op = "stop") =>
        \A e \in Feeds(components) :
            PosIn(calls, e[2]) # 0 =>
                (PosIn(calls, e[1]) # 0 /\ PosIn(calls, e[1]) < PosIn(calls, e[2]))

-----------------------------------------------------------------------------
(* C11 *)

\* the stop order of the claim: dispatchers, platform synchronizer, api
\* watcher, collectors, log parsers, the l4 / metrics / l7 trunk senders, the
\* leaf services, MetricServer, the auxiliary senders, the controller watcher,
\* the handler builders, the pcap manager
StopRank(kind) ==
    CASE kind = "dispatcher" -> 1
      [] kind = "platform_synchronizer" -> 2
      [] kind = "api_watcher" -> 3
      [] kind = "collector" -> 4
      [] kind = "log_parser" -> 5
      [] kind = "l4_flow_uniform_sender" -> 6
      [] kind = "metrics_uniform_sender" -> 7
      [] kind = "l7_flow_uniform_sender" -> 8
      [] kind = "libvirt_xml_extractor" -> 9
      [] kind = "debugger" -> 10
      [] kind = "ebpf_collector" -> 11
      [] kind = "cgroups_controller" -> 12
      [] kind = "external_metrics_server" -> 13
      [] kind \in {"otel_uniform_sender", "compressed_otel_uniform_sender",
                   "prometheus_uniform_sender", "telegraf_uniform_sender",
                   "packet_sequence_uniform_sender"} -> 14
      [] kind = "domain_name_listener" -> 15
      [] kind = "handler_builders" -> 16
      [] kind = "pcap_manager" -> 17
      [] OTHER -> 0

\* the components named by the claim's stop order, for an instance c
StopNamed(c) ==
    {x \in CompsOf(c.units, c.has_ebpf) : StopRank(x[1]) # 0}

\* C11: a Components::stop that passes the running guard stops, in this
\* order: all dispatchers, platform synchronizer, api watcher, all collectors,
\* all log parsers, the l4 / metrics / l7 trunk senders, the leaf services
\* (libvirt extractor, debugger, eBPF collector, cgroups), MetricServer and
\* the auxiliary senders, the controller watcher, the handler builders, and
\* last the pcap manager; each of them exactly once.
C11_StopOrder ==
    [][(calls = << >> /\ calls' # << >> /\ calls'[1].op = "stop")
        => /\ components # None
           /\ components.running
           /\ \A i \in 1..Len(calls') : calls'[i].op = "stop" /\ StopRank(calls'[i].c[1]) # 0
           /\ \A i \in 1..(Len(calls') - 1) :
                StopRank(calls'[i].c[1]) <= StopRank(calls'[i + 1].c[1])
           /\ {calls'[i].c : i \in 1..Len(calls')} = StopNamed(components)
           /\ Len(calls') = Cardinality(StopNamed(components))
           /\ calls'[Len(calls')].c = <<"pcap_manager", 0>>]_vars

\* Disabled has stopped a running pipeline of several capture units that owns
\* an eBPF collector
C11_Witness ==
    /\ pc = "wait"
    /\ trace = <<"Disabled", "components.stop", "wait">>
    /\ calls # << >>
    /\ components.units >= 2
    /\ components.has_ebpf

-----------------------------------------------------------------------------
(* C12 *)

\* the documented start order
StartRank(kind) ==
    CASE kind = "libvirt_xml_extractor" -> 1
      [] kind = "pcap_manager" -> 2
      [] kind = "platform_synchronizer" -> 3
      [] kind = "api_watcher" -> 4
      [] kind = "kubernetes_poller" -> 5
      [] kind = "debugger" -> 6
      [] kind = "metrics_uniform_sender" -> 7
      [] kind = "l7_flow_uniform_sender" -> 8
      [] kind = "l4_flow_uniform_sender" -> 9
      [] kind = "packet_sequence_uniform_sender" -> 10
      [] kind = "packet_sequence_parser" -> 11
      [] kind = "dispatcher" -> 12
      [] kind = "log_parser" -> 13
      [] kind = "collector" -> 14
      [] kind = "ebpf_collector" -> 15
      [] kind \in {"otel_uniform_sender", "compressed_otel_uniform_sender",
                   "prometheus_uniform_sender", "telegraf_uniform_sender",
                   "external_metrics_server"} -> 16
      [] kind = "domain_name_listener" -> 17
      [] kind = "handler_builders" -> 18
      [] OTHER -> 0

\* the start calls made by Components::start among the calls cs (stats_sender
\* is started by Components::new)
StartsIn(cs) ==
    LET ByStart(x) == x.op = "start" /\ x.c # <<"stats_sender", 0>>
    IN  SelectSeq(cs, ByStart)

ManagedOnly ==
    {"platform_synchronizer", "api_watcher", "otel_uniform_sender",
     "compressed_otel_uniform_sender", "prometheus_uniform_sender",
     "telegraf_uniform_sender", "external_metrics_server"}

\* C12: a Components::start that passes the running guard starts components
\* in the documented order: the metrics, l7 and l4 trunk senders and the
\* packet-sequence sender come before any dispatcher, dispatchers before log
\* parsers and collectors, the controller watcher and the handler builders
\* last; platform synchronizer, api watcher, auxiliary senders and
\* MetricServer are started in Managed mode only; the dispatchers are started
\* unconditionally in Analyzer mode or with a cluster id, and otherwise all of
\* them or none (the free-memory check).
C12_StartOrder ==
    [][(calls = << >> /\ StartsIn(calls') # << >>)
        => \A s \in {StartsIn(calls')} :
           \A started \in {{s[i].c : i \in 1..Len(s)}} :
           LET c == components'
               \* the config the instance holds while start runs
               cfg == IF components = None THEN c.config ELSE components.config
               AllOf(kind) == {<<kind, u>> : u \in 0..(c.units - 1)}
           IN  /\ \A i \in 1..Len(s) : StartRank(s[i].c[1]) # 0
               /\ \A i \in 1..(Len(s) - 1) :
                    StartRank(s[i].c[1]) <= StartRank(s[i + 1].c[1])
               /\ Len(s) = Cardinality(started)
               /\ {<<k, 0>> : k \in {"libvirt_xml_extractor", "pcap_manager",
                                     "kubernetes_poller", "debugger",
                                     "metrics_uniform_sender", "l7_flow_uniform_sender",
                                     "l4_flow_uniform_sender",
                                     "packet_sequence_uniform_sender",
                                     "domain_name_listener"}} \subseteq started
               /\ \A k \in {"packet_sequence_parser", "log_parser", "collector",
                            "handler_builders"} : AllOf(k) \subseteq started
               /\ c.has_ebpf => <<"ebpf_collector", 0>> \in started
               /\ c.agent_mode # "Managed" =>
                    \A k \in ManagedOnly : <<k, 0>> \notin started
               /\ c.agent_mode = "Managed" =>
                    /\ \A k \in ManagedOnly \ {"external_metrics_server"} :
                            <<k, 0>> \in started
                    /\ <<"external_metrics_server", 0>> \in started
                            <=> cfg.metric_server_enabled
               /\ \/ AllOf("dispatcher") \subseteq started
                  \/ /\ AllOf("dispatcher") \cap started = {}
                     /\ c.tap_mode # "Analyzer"
                     /\ cfg.kubernetes_cluster_id = ""
               /\ s[Len(s)].c = <<"handler_builders", c.units - 1>>]_vars

\* the first ConfigChanged has built and started a Managed pipeline of
\* several capture units, dispatchers included
C12_Witness ==
    /\ pc = "lock"
    /\ "Components::new" \in Range(trace)
    /\ components.agent_mode = "Managed"
    /\ components.units >= 2
    /\ \E i \in 1..Len(calls) : calls[i].c = <<"dispatcher", 1>>
    /\ \E i \in 1..Len(calls) : calls[i].c = <<"external_metrics_server", 0>>

-----------------------------------------------------------------------------
(* C13 *)

\* C13: every bounded queue allocated while building the pipeline (the pcap
\* intake queue included) has a countable registered under module = its queue
\* name and an index tag, and no producer of a queue is started while the
\* queue has no registered countable.
C13_Claim ==
    components # None =>
        \A q \in components.queues :
            /\ q.tags # None
            /\ q.tags.module = q.name
            /\ (\E p \in q.producers : components.last[p] = "start") => q.tags # None

-----------------------------------------------------------------------------
(* C14 *)

\* the queues of the three trunk senders: l4-flow-aggr, metrics, proto-log
TrunkQueues ==
    {"3-flow-to-collector-sender", "2-doc-to-collector-sender",
     "3-protolog-to-collector-sender"}

\* C14: for each trunk sender queue, the index tag its countable is
\* registered under is the sender id of the UniformSenderThread draining it.
C14_Claim ==
    components # None =>
        \A q \in components.queues :
            q.name \in TrunkQueues =>
                /\ q.tags # None
                /\ q.sender_id # NoSender
                /\ q.tags.index = UsizeToString(q.sender_id.some)

-----------------------------------------------------------------------------
(* Shorthands for the controller watcher *)

\* thread t runs one polling round in this step
RoundBy(t) == watchers[t].pc = "sleep" /\ watchers'[t].pc = "check"

\* in that round, position i resolved to a set without the current ips[i]
DeemedChanged(i) == round'.outcome[i] = "moved"

\* DomainNameListener::stop has set the flag and waits in join
StopRequested == dnl_call.op = "stop" /\ ~dnl_call.done

-----------------------------------------------------------------------------
(* C15 *)

\* C15: in a polling round, if at any position the resolved address set does
\* not contain ips[i], then in that same round the watcher calls
\* reset_session with the updated list and updates the stats remotes and the
\* remote-log destination, whichever position changed; and a round that finds
\* no position changed makes no reset (one DNS change, one reset_session).
C15_Claim ==
    /\ [][\A t \in 1..MaxSpawns :
            (RoundBy(t) /\ \E i \in 1..listener.domain_names : DeemedChanged(i))
                => /\ round'.reset
                   /\ uplink' = [session |-> watchers'[t].ips,
                                 stats |-> watchers'[t].ips,
                                 log |-> watchers'[t].ips]]_vars
    /\ [][\A t \in 1..MaxSpawns :
            (RoundBy(t) /\ ~\E i \in 1..listener.domain_names : DeemedChanged(i))
                => /\ ~round'.reset
                   /\ uplink' = uplink]_vars

-----------------------------------------------------------------------------
(* C16 *)

\* C16: DomainNameListener::start is idempotent and never spawns without
\* domain names: at most one watcher thread is alive at any time, a held
\* handle is that of the live thread, a start while a handle is held spawns
\* nothing and changes nothing, and with no domain names no thread is ever
\* spawned and thread_handler stays None.
C16_StartIdempotent ==
    /\ [](Cardinality({t \in 1..MaxSpawns : Alive(t)}) <= 1)
    /\ [](listener.thread_handler # 0 => Alive(listener.thread_handler))
    /\ [][(dnl_call' # dnl_call /\ dnl_call'.op = "start" /\ listener.thread_handler # 0)
            => /\ watchers' = watchers
               /\ listener' = listener
               /\ dnl_call'.thread = 0]_vars
    /\ [](listener.domain_names = 0 =>
            /\ listener.thread_handler = 0
            /\ \A t \in 1..MaxSpawns : watchers[t].pc = "unborn")

\* after a stop and a second start, one more start found the handle of the
\* second thread held
C16_Witness ==
    /\ dnl_call.op = "start"
    /\ dnl_call.held
    /\ listener.thread_handler = 2
    /\ watchers[1].pc = "exited"
    /\ Alive(2)

-----------------------------------------------------------------------------
(* C17 *)

\* C17: once DomainNameListener::stop has set the stopped flag, the watcher
\* thread makes no reset_session, stats-remote or remote-log update any more
\* and exits at its next check of the flag; stop returns with the thread
\* joined and thread_handler = None; the request is never lost by the
\* thread's own swap of the flag.
C17_Claim ==
    /\ [][StopRequested
            => /\ \A t \in 1..MaxSpawns : ~(RoundBy(t) /\ round'.reset)
               /\ uplink' = uplink]_vars
    /\ [][\A t \in 1..MaxSpawns :
            (watchers[t].pc = "check" /\ watchers'[t] # watchers[t] /\ listener.stopped)
                => watchers'[t].pc = "exited"]_vars
    /\ [][(~dnl_call.done /\ dnl_call'.done)
            => /\ watchers'[dnl_call.thread].pc = "exited"
               /\ listener'.thread_handler = 0]_vars
    /\ [](StopRequested =>
            (listener.stopped \/ watchers[dnl_call.thread].pc = "exited"))

-----------------------------------------------------------------------------
(* C18 *)

\* C18: in a polling round every name is resolved; a failed resolution of
\* domain_names[i] leaves ips[i] unchanged, the round counts as changed only
\* if some successful resolution lacks its current address, and the thread
\* stays in its loop, so the name is resolved again in the next round.
C18_FailedLookup ==
    [][\A t \in 1..MaxSpawns :
        RoundBy(t) =>
            /\ DOMAIN round'.outcome = 1..listener.domain_names
            /\ \A i \in 1..listener.domain_names :
                    round'.outcome[i] = "failed"
                        => watchers'[t].ips[i] = watchers[t].ips[i]
            /\ round'.reset => \E i \in 1..listener.domain_names : DeemedChanged(i)
            /\ ~round'.reset => uplink' = uplink
            /\ watchers'[t].pc = "check"
            /\ round'.thread = t]_vars

\* a round in which the first name moved and the lookup of the second failed
C18_Witness ==
    /\ round.thread # 0
    /\ listener.domain_names = 2
    /\ round.outcome[1] = "moved"
    /\ round.outcome[2] = "failed"
    /\ round.reset
    /\ Alive(round.thread)

-----------------------------------------------------------------------------
(* Shorthands for the listener callback *)

\* the calls listener i received, in order
CallsTo(i) ==
    LET ToListener(x) == x.listener = i
    IN  SelectSeq(cb_out.calls, ToListener)

\* the interfaces found in the namespace of listener i (none on an error)
InterfacesOf(i) ==
    LET found == IF cb_in.listeners[i] = "Root" THEN cb_in.root_links ELSE cb_in.ns_links
    IN  IF found = LinksFailed THEN << >> ELSE found.links

-----------------------------------------------------------------------------
(* C19 *)

\* C19: in Local capture mode dispatcher_listener_callback delivers to every
\* dispatcher listener, root-namespace or not, first
\* on_tap_interface_change(interfaces, if_mac_source, trident_type, blacklist)
\* with the interfaces of the listener's namespace (an empty list on no match
\* or a regex error) and then on_vm_change(vm_macs).
C19_Claim ==
    (cb_out.done /\ cb_in.tap_mode = "Local") =>
        \A i \in 1..Len(cb_in.listeners) :
            CallsTo(i) =
                << [listener |-> i, call |-> "on_tap_interface_change",
                    args |-> <<InterfacesOf(i), cb_in.if_mac_source,
                               cb_in.trident_type, cb_in.blacklist>>],
                   [listener |-> i, call |-> "on_vm_change",
                    args |-> <<cb_in.vm_mac_addrs>>] >>

-----------------------------------------------------------------------------
(* C20 *)

\* C20: in Mirror or Analyzer capture mode every dispatcher listener receives
\* on_tap_interface_change with an empty interface list and IfMacSource::IfMac
\* and then on_vm_change(vm_macs); in Analyzer mode parse_tap_type runs once,
\* after all listeners were updated, and in Mirror mode not at all; in a
\* capture mode other than Local, Mirror and Analyzer the callback calls
\* nothing.
C20_MirrorAnalyzer ==
    cb_out.done =>
        LET n == Len(cb_in.listeners)
            made == cb_out.calls
        IN  /\ cb_in.tap_mode \in {"Mirror", "Analyzer"} =>
                \A i \in 1..n :
                    CallsTo(i) =
                        << [listener |-> i, call |-> "on_tap_interface_change",
                            args |-> << << >>, "IfMac", cb_in.trident_type,
                                        cb_in.blacklist >>],
                           [listener |-> i, call |-> "on_vm_change",
                            args |-> <<cb_in.vm_mac_addrs>>] >>
            /\ cb_in.tap_mode = "Analyzer" =>
                /\ Len(made) = 2 * n + 1
                /\ made[Len(made)] = [listener |-> 0, call |-> "parse_tap_type",
                                        args |-> <<cb_in.tap_types>>]
            /\ cb_in.tap_mode = "Mirror" => Len(made) = 2 * n
            /\ cb_in.tap_mode \notin {"Local", "Mirror", "Analyzer"} => made = << >>

\* the callback has run in Analyzer mode over two listeners, one of them in a
\* named namespace, with a configured if_mac_source other than IfMac
C20_Witness ==
    /\ cb_out.done
    /\ cb_in.tap_mode = "Analyzer"
    /\ Len(cb_in.listeners) = 2
    /\ cb_in.listeners[2] = "ns1"
    /\ cb_in.if_mac_source = "IfName"
    /\ Len(cb_out.calls) = 5

-----------------------------------------------------------------------------
(* C21: parse_tap_type notifies the TapTyper exactly once, with the new list,
   iff the new list differs from cur_tap_types in length or in some element,
   and not at all when they are equal; after the call cur_tap_types equals the
   new list; a call with the list of the call before it notifies nothing. *)
C21_ParseTapType ==
    [][\A new \in {tap_call'.tap_types} :
        /\ tap_call'.done
        /\ (\/ Len(cur_tap_types) # Len(new)
            \/ \E i \in DOMAIN new : i \in DOMAIN cur_tap_types /\ cur_tap_types[i] # new[i])
               <=> tap_call'.notified = <<new>>
        /\ cur_tap_types = new <=> tap_call'.notified = << >>
        /\ cur_tap_types' = new
        /\ (tap_call.done /\ tap_call.tap_types = new) => tap_call'.notified = << >>
      ]_vars

\* a list was applied with a notification, then applied again without one
C21_Witness ==
    /\ tap_call.done
    /\ tap_call.tap_types # << >>
    /\ cur_tap_types = tap_call.tap_types
    /\ tap_call.notified = << >>

\* positions of the steps named op in a step sequence
StepsOf(s, op) == {j \in DOMAIN s : s[j].op = op}

\* the supervisor applies a ConfigChanged to an existing pipeline and goes on
\* to relock the cell
HotApplyStep ==
    /\ pc = "apply"
    /\ pc' = "lock"
    /\ components # None

\* the supervisor applies a ConfigChanged without a pipeline
BuildApplyStep ==
    /\ pc = "apply"
    /\ pc' = "lock"
    /\ components = None

-----------------------------------------------------------------------------
(* C22: when a ConfigChanged is applied to an existing pipeline, every
   dispatcher listener receives on_config_change with the new dispatcher
   config exactly once, and these calls are the last steps before the relock:
   dispatcher_listener_callback and every callback come before them. *)
C22_ListenersLast ==
    [][HotApplyStep =>
        \A s \in {applied'} :
            /\ \A i \in 0..(components.units - 1) :
                    \E j \in StepsOf(s, "on_config_change") :
                        /\ s[j].i = i
                        /\ s[j].arg = [tap_mode |-> candidate_config'.tap_mode]
                        /\ \A k \in StepsOf(s, "on_config_change") : s[k].i = i => k = j
            /\ Cardinality(StepsOf(s, "on_config_change")) = components.units
            /\ StepsOf(s, "dispatcher_listener_callback") # {}
            /\ \A j \in StepsOf(s, "on_config_change"), k \in DOMAIN s :
                    s[k].op # "on_config_change" => k < j
      ]_vars

\* a hot event with two listeners and two callbacks has been applied
C22_Witness ==
    /\ pc = "lock"
    /\ Cardinality(StepsOf(applied, "on_config_change")) = 2
    /\ Cardinality(StepsOf(applied, "callback")) = 2
    /\ StepsOf(applied, "dispatcher_listener_callback") # {}

\* every step named a comes before every step named b
Before(s, a, b) == \A j \in StepsOf(s, a), k \in StepsOf(s, b) : j < k

\* each of the callbacks returned by on_config is fired exactly once
EachCallbackOnce(s) ==
    \A j, k \in StepsOf(s, "callback") : s[j].i = s[k].i => j = k

-----------------------------------------------------------------------------
(* C23 (as claimed): on the first ConfigChanged the supervisor builds the
   pipeline, starts it, then stashes the yaml_config, then fires each callback
   once, and then parses the tap types if the capture mode is Analyzer. *)
C23_Original ==
    [][BuildApplyStep =>
        \A s \in {applied'} :
            /\ Cardinality(StepsOf(s, "Components::new")) = 1
            /\ Cardinality(StepsOf(s, "components.start")) = 1
            /\ Cardinality(StepsOf(s, "yaml_conf")) = 1
            /\ Before(s, "Components::new", "components.start")
            /\ Before(s, "components.start", "yaml_conf")
            /\ Before(s, "yaml_conf", "callback")
            /\ EachCallbackOnce(s)
            /\ Before(s, "callback", "parse_tap_type")
            /\ Before(s, "yaml_conf", "parse_tap_type")
            /\ (StepsOf(s, "parse_tap_type") # {}) = (candidate_config'.tap_mode = "Analyzer")
            /\ Before(s, "components.start", "callback")
      ]_vars

(* C23 (amended): on a ConfigChanged taken without a pipeline the supervisor
   stashes the event's yaml_config, then builds the pipeline with
   Components::new, starts it, parses the tap types once iff the capture mode
   is Analyzer, and then fires each callback returned by on_config exactly
   once; the pipeline is already started when the callbacks run. *)
C23_BuildOrder ==
    [][BuildApplyStep =>
        \A s \in {applied'} :
            /\ Cardinality(StepsOf(s, "Components::new")) = 1
            /\ Cardinality(StepsOf(s, "components.start")) = 1
            /\ Cardinality(StepsOf(s, "yaml_conf")) = 1
            /\ \A j \in StepsOf(s, "yaml_conf") : s[j].arg = yaml_conf'
            /\ Before(s, "yaml_conf", "Components::new")
            /\ Before(s, "Components::new", "components.start")
            /\ Before(s, "components.start", "parse_tap_type")
            /\ Cardinality(StepsOf(s, "parse_tap_type"))
                    = (IF candidate_config'.tap_mode = "Analyzer" THEN 1 ELSE 0)
            /\ Before(s, "parse_tap_type", "callback")
            /\ Before(s, "components.start", "callback")
            /\ EachCallbackOnce(s)
            /\ components'.running
      ]_vars

\* a first ConfigChanged in Analyzer mode with two callbacks has been applied
C23_Witness ==
    /\ pc = "lock"
    /\ StepsOf(applied, "Components::new") # {}
    /\ StepsOf(applied, "parse_tap_type") # {}
    /\ Cardinality(StepsOf(applied, "callback")) = 2

\* the count of seconds q * 2^16 + r, r any natural number, with r < 2^16
Carried(q, r) == <<q + (r \div Word), r % Word>>

\* a count of seconds fits in 32 bits
FitsU32(a) == a[1] < Word

-----------------------------------------------------------------------------
(* C24: new_collector computes second_delay = packet_delay + 1 +
   flush_interval + 5 + second_flow_extra_delay and minute_delay = 60 +
   packet_delay + 1 + flush_interval + 5; when a delay fits in 32 bits the
   window of its Collector is the delay plus COMMON_DELAY; the Collector of a
   level absent from the MetricsType is not instantiated. *)
C24_Claim ==
    col_out.built =>
        \A second \in {Carried(col_in.packet_delay[1] + col_in.flush_interval[1]
                                    + col_in.second_flow_extra_delay[1],
                                col_in.packet_delay[2] + 1 + col_in.flush_interval[2] + 5
                                    + col_in.second_flow_extra_delay[2])},
           minute \in {Carried(col_in.packet_delay[1] + col_in.flush_interval[1],
                                60 + col_in.packet_delay[2] + 1 + col_in.flush_interval[2] + 5)} :
            /\ ~col_out.panicked
            /\ col_out.second_delay = second
            /\ col_out.minute_delay = minute
            /\ ("SECOND" \in col_in.metrics_type) = (col_out.second_collector # None)
            /\ ("MINUTE" \in col_in.metrics_type) = (col_out.minute_collector # None)
            /\ ("SECOND" \in col_in.metrics_type /\ FitsU32(second))
                    => col_out.second_collector.window = Carried(second[1], second[2] + 5)
            /\ ("MINUTE" \in col_in.metrics_type /\ FitsU32(minute))
                    => col_out.minute_collector.window = Carried(minute[1], minute[2] + 5)

\* the namespace files Components::new looks at
Matched == IF units_in.extra_netns_regex # "" THEN Range(units_in.found) ELSE {}

\* number of units in the root namespace
RootUnits == Max(1, Len(units_in.src_interfaces))

\* the six per-unit vectors
UnitVectors ==
    {units_out.dispatchers, units_out.dispatcher_listeners, units_out.log_parsers,
     units_out.packet_sequence_parsers, units_out.collectors, units_out.handler_builders}

-----------------------------------------------------------------------------
(* C25: the capture units are one (interface, root) unit per configured
   source interface, in configured order, or the single unit ("", root) when
   none is configured, followed by one ("", ns) unit per matched extra
   namespace in ascending order; each of the six per-unit vectors has one
   entry per unit, and the dispatcher of unit i has id i and that unit's
   interface and namespace. *)
C25_Units ==
    units_out.built =>
        \A u \in {units_out.units} :
            /\ Len(u) = RootUnits + Cardinality(Matched)
            /\ \A j \in 1..Len(units_in.src_interfaces) :
                    u[j] = <<units_in.src_interfaces[j], RootNs>>
            /\ units_in.src_interfaces = << >> => u[1] = <<"", RootNs>>
            /\ \A j \in (RootUnits + 1)..Len(u) : u[j][1] = "" /\ u[j][2] \in Matched
            /\ \A j \in (RootUnits + 1)..(Len(u) - 1) : u[j][2] < u[j + 1][2]
            /\ \A v \in UnitVectors : Len(v) = Len(u)
            /\ Cardinality(UnitVectors) = 6
            /\ \A j \in 1..Len(u) :
                    /\ units_out.dispatchers[j].id = j - 1
                    /\ units_out.dispatchers[j].src_interface = u[j][1]
                    /\ units_out.dispatchers[j].netns = u[j][2]

\* two interfaces are configured and two namespaces were found out of order
C25_Witness ==
    /\ units_out.built
    /\ Len(units_in.src_interfaces) = 2
    /\ units_in.extra_netns_regex # ""
    /\ Len(units_in.found) = 2
    /\ units_in.found[1] > units_in.found[2]
    /\ Len(units_out.units) = 4

\* what became of free_memory_check in the components.start of a step sequence
ChecksIn(s) == {s[j].arg.free_memory_check : j \in StepsOf(s, "components.start")}

\* the components other than dispatchers that a start of instance c holding
\* the config cfg is to start
StartedBesidesDispatchers(c, cfg) ==
    {<<k, 0>> : k \in {"libvirt_xml_extractor", "pcap_manager", "kubernetes_poller",
                        "debugger", "metrics_uniform_sender", "l7_flow_uniform_sender",
                        "l4_flow_uniform_sender", "packet_sequence_uniform_sender",
                        "domain_name_listener"}}
    \cup {<<k, u>> : k \in {"packet_sequence_parser", "log_parser", "collector",
                             "handler_builders"}, u \in 0..(c.units - 1)}
    \cup (IF c.has_ebpf THEN {<<"ebpf_collector", 0>>} ELSE {})
    \cup (IF c.agent_mode = "Managed"
          THEN {<<k, 0>> : k \in ManagedOnly \ {"external_metrics_server"}}
               \cup (IF cfg.metric_server_enabled
                     THEN {<<"external_metrics_server", 0>>} ELSE {})
          ELSE {})

-----------------------------------------------------------------------------
(* C26: a Components::start that passes the running guard performs the
   free-memory check exactly when the instance's tap_mode is not Analyzer and
   the kubernetes cluster id in the config the instance holds is empty; when
   the check fails no dispatcher is started, every other component is, the
   running flag is true and the supervisor goes on to relock the cell without
   returning or exiting. *)
C26_MemoryGate ==
    [][(pc = "apply" /\ pc' = "lock")
        => \A check \in ChecksIn(applied') \ {"returned"} :
           LET c == components'
               \* the config the instance holds while start runs
               cfg == IF components = None THEN c.config ELSE components.config
               started == {calls'[i].c : i \in {j \in DOMAIN calls' : calls'[j].op = "start"}}
                            \ {<<"stats_sender", 0>>}
           IN  /\ (check \in {"ok", "failed"})
                    = (c.tap_mode # "Analyzer" /\ cfg.kubernetes_cluster_id = "")
               /\ check \in {"ok", "failed", "none"}
               /\ check = "failed" =>
                    /\ started = StartedBesidesDispatchers(c, cfg)
                    /\ c.running
                    /\ pc' \notin {"returned", "exited", "sleep"}
                    /\ exit_code' = "none"
               /\ check # "failed" =>
                    started = StartedBesidesDispatchers(c, cfg)
                                \cup {<<"dispatcher", u>> : u \in 0..(c.units - 1)}
      ]_vars

\* a start on the hot path, after a Disabled, has failed the free-memory check
C26_Witness ==
    /\ pc = "lock"
    /\ "failed" \in ChecksIn(applied)
    /\ StepsOf(applied, "Components::new") = {}
    /\ components.running
    /\ components.units >= 2
    /\ \A u \in 0..(components.units - 1) : components.last[<<"dispatcher", u>>] # "start"

-----------------------------------------------------------------------------
(* C27: the kubernetes_cluster_id of the supervisor's static config, once
   non-empty, is never made empty again by a ConfigChanged, whether the event
   carries a cluster id or not; an event without a cluster id leaves it
   unchanged. *)
C27_Claim ==
    [][/\ static_k8s # "" => static_k8s' # ""
       /\ (pc = "apply" /\ new_state.kind = "ConfigChanged"
              /\ new_state.config.kubernetes_cluster_id = NoClusterId)
            => static_k8s' = static_k8s
      ]_vars

-----------------------------------------------------------------------------
(* C28: in Managed mode Trident::start reads the fallback file only when
   loading the primary path failed with the invalid-yaml error; any other
   primary error is returned as it is without reading the fallback; when the
   fallback fails too the error returned is the primary's; in each of these
   error cases no supervisor thread is spawned. *)
C28_Fallback ==
    (launch_out.done /\ launch_in.agent_mode = "Managed") =>
        \A primary \in {launch_in.primary}, fallback \in {launch_in.fallback} :
            /\ ("DEFAULT_TRIDENT_CONF_FILE" \in Range(launch_out.reads))
                    = (~primary.ok /\ primary.error = "YamlConfigInvalid")
            /\ (~primary.ok /\ primary.error # "YamlConfigInvalid") =>
                    /\ ~launch_out.ok
                    /\ launch_out.error = [file |-> "config_path", error |-> primary.error]
                    /\ launch_out.reads = <<"config_path">>
                    /\ ~launch_out.spawned
            /\ (~primary.ok /\ primary.error = "YamlConfigInvalid" /\ ~fallback.ok) =>
                    /\ ~launch_out.ok
                    /\ launch_out.error = [file |-> "config_path", error |-> primary.error]
                    /\ ~launch_out.spawned
            /\ launch_out.spawned => launch_out.ok

\* the primary was invalid yaml, the fallback failed with another error
C28_Witness ==
    /\ launch_out.done
    /\ launch_in.agent_mode = "Managed"
    /\ ~launch_in.primary.ok
    /\ launch_in.primary.error = "YamlConfigInvalid"
    /\ ~launch_in.fallback.ok
    /\ launch_in.fallback.error = "ErrorA"
    /\ ~launch_out.ok
    /\ ~launch_out.spawned

-----------------------------------------------------------------------------
(* C29: in Standalone mode no step of the supervisor starts the platform
   synchronizer, the api watcher, the OTel, compressed OTel, Prometheus or
   Telegraf sender or the MetricServer, and the stats collector is not
   started; in Managed mode a Components::start starts the MetricServer only
   if it is enabled in the config the instance holds. *)
C29_ManagedOnly ==
    [][\A started \in {{calls'[i].c : i \in {j \in DOMAIN calls' : calls'[j].op = "start"}}} :
        /\ agent_mode = "Standalone" =>
                /\ \A k \in ManagedOnly : <<k, 0>> \notin started
                /\ components' # None =>
                        \A k \in ManagedOnly : components'.last[<<k, 0>>] # "start"
                /\ ~stats_collector
                /\ ~stats_collector'
        /\ (agent_mode = "Managed" /\ calls = << >>
                /\ <<"external_metrics_server", 0>> \in started) =>
                IF components = None
                THEN components'.config.metric_server_enabled
                ELSE components.config.metric_server_enabled
      ]_vars

\* a Standalone pipeline was stopped by Disabled and started again
C29_Witness ==
    /\ pc = "lock"
    /\ agent_mode = "Standalone"
    /\ ~stats_collector
    /\ StepsOf(applied, "Components::new") = {}
    /\ \E i \in DOMAIN calls :
            calls[i].op = "start" /\ calls[i].c = <<"domain_name_listener", 0>>
    /\ components.last[<<"otel_uniform_sender", 0>>] = "stop"

-----------------------------------------------------------------------------
(* C30: State::unwrap_config panics on every state that is not a
   ConfigChanged and returns the payload of one that is; the supervisor never
   panics there: whatever the writers of the cell do, the value it has swapped
   out of the cell and is about to unwrap is a ConfigChanged. *)
C30_NoPanic ==
    /\ \A s \in {Running, Terminated, Disabled} : UnwrapConfig(s) = Panic
    /\ \A c \in ChangedConfigs : UnwrapConfig(ConfigChanged(c)) = c
    /\ pc # "panicked"
    /\ pc = "apply" => new_state.kind = "ConfigChanged"

\* a payload is swapped out and Trident::stop has published Terminated before
\* the supervisor unwraps it
C30_Witness ==
    /\ pc = "apply"
    /\ new_state.kind = "ConfigChanged"
    /\ state.kind = "Terminated"

-----------------------------------------------------------------------------
\* a step of the supervisor thread: it leaves its position (a writer moves
\* the supervisor only out of cond.wait, by its notify)
SupervisorStep == pc' # pc /\ pc # "wait"

\* C31: the supervisor changes the State cell in one way only: holding the
\* mutex, it replaces a ConfigChanged by Running and keeps the payload to
\* apply it; it never overwrites Disabled or Terminated, no other step of it
\* writes the cell, and a payload is applied at most once: the supervisor
\* reaches the point of applying only by that swap, which empties the cell,
\* and applying consumes the payload taken.
C31_ConsumesOnly ==
    [][/\ (SupervisorStep /\ state' # state)
            => /\ mutex = "run"
               /\ state.kind = "ConfigChanged"
               /\ state' = Running
               /\ new_state' = state
               /\ pc' = "apply"
       /\ (pc' = "apply" /\ pc # "apply")
            => (state.kind = "ConfigChanged" /\ state' = Running /\ new_state' = state)
       /\ ApplyStep
            => (new_state.kind = "ConfigChanged" /\ new_state' = Running /\ state' = state)
      ]_vars

\* a second payload was swapped out of the cell, which holds Running again
C31_Witness ==
    /\ pc = "apply"
    /\ components # None
    /\ new_state.kind = "ConfigChanged"
    /\ state = Running

-----------------------------------------------------------------------------
\* C32: the value Components::new returns is not started: running is false,
\* the controller watcher holds no thread handle, and the stats uniform sender
\* is the only component that has received start; that start is the first
\* call of the construction, before every registration of a queue counter;
\* the components that Components::start then starts had received nothing.
C32_NotStarted ==
    /\ \A n \in 0..MaxNames : DomainNameListenerNew(n).thread_handler = 0
    /\ \A j \in StepsOf(applied, "Components::new") :
          \A r \in {applied[j].arg} :
            /\ ~r.running
            /\ r.thread_handler = 0
            /\ r.started = {<<"stats_sender", 0>>}
            /\ r.steps[1] = NewStep("start", <<"stats_sender", 0>>)
            /\ \A k \in 2..Len(r.steps) : r.steps[k].op = "register_countable"
            /\ Len(r.steps) > 1
            /\ calls[1] = [op |-> "start", c |-> <<"stats_sender", 0>>, prev |-> "none"]
            /\ \A k \in 2..Len(calls) : calls[k].op = "start" /\ calls[k].prev = "none"

\* a pipeline with a unit for an extra namespace was built and then started
C32_Witness ==
    /\ StepsOf(applied, "Components::new") # {}
    /\ components # None
    /\ components.running
    /\ components.units > 1
    /\ Len(calls) > 1

-----------------------------------------------------------------------------
\* C33: no wakeup is lost: the supervisor is never blocked in cond.wait while
\* the cell holds ConfigChanged or Terminated, whenever the writers post
\* (before the first lock, while a payload is applied with the mutex
\* released, while the supervisor waits).
C33_NoLostWakeup ==
    pc = "wait" => state.kind \in {"Running", "Disabled"}

\* a writer posted to the supervisor blocked beside a pipeline: it is woken
C33_Witness ==
    /\ pc = "woken"
    /\ components # None
    /\ state.kind \in {"ConfigChanged", "Terminated"}

-----------------------------------------------------------------------------
\* C34: once Trident::stop has written Terminated the supervisor returns and
\* the join in stop completes (or the process has left through an exit), also
\* when the Synchronizer posts Running, Disabled or a ConfigChanged between
\* that write and the supervisor's next read of the cell.
C34_Claim ==
    stop_called ~> (joined \/ exit_code # "none")

-----------------------------------------------------------------------------
\* C35: the supervisor does not hold the mutex of the State cell during a
\* step that builds, starts, patches or stops the pipeline (on Disabled and
\* Terminated as well), so no writer waits for a pipeline operation.
C35_Claim ==
    [][(components' # components \/ (calls' # calls /\ calls' # << >>))
            => mutex = "free"]_vars

-----------------------------------------------------------------------------
\* C36: when a ConfigChanged with the stored yaml_config restarts a pipeline
\* that Disabled had stopped, Components::start decides from the module config
\* of that event: the free-memory check is made exactly when the instance is
\* no Analyzer and the new cluster id is empty, and (Managed mode) the
\* MetricServer is started exactly when the new config enables it.
C36_Claim ==
    [][(HotApplyStep /\ ~components.running)
        => \A check \in ChecksIn(applied') :
           LET cand == candidate_config'
               started == {calls'[i].c : i \in {j \in DOMAIN calls' : calls'[j].op = "start"}}
           IN  /\ (check \in {"ok", "failed"})
                    = (components.tap_mode # "Analyzer" /\ cand.kubernetes_cluster_id = "")
               /\ (<<"external_metrics_server", 0>> \in started)
                    = (components.agent_mode = "Managed" /\ cand.metric_server_enabled)
      ]_vars

-----------------------------------------------------------------------------
\* C37: dispatchers do not stay unstarted while the pipeline runs: when a
\* ConfigChanged with the stored yaml_config is applied to a running pipeline
\* whose dispatchers were held back by a failed free-memory check, and no
\* check fails in this apply, the dispatchers are started by it.
C37_Claim ==
    [][(/\ HotApplyStep
        /\ components.running
        /\ "failed" \notin ChecksIn(applied'))
        => \A u \in 0..(components.units - 1) :
              components'.last[<<"dispatcher", u>>] = "start"
      ]_vars

-----------------------------------------------------------------------------
\* C38: when a ConfigChanged is applied in Local, Mirror or Analyzer mode,
\* every dispatcher listener is handed the blacklist of that event by
\* on_tap_interface_change, on the first ConfigChanged (no pipeline yet) as
\* on the later ones.
C38_Claim ==
    (ev_out.done /\ "conf" \in DOMAIN ev_in) =>
        \A i \in 1..Len(ev_in.conf.listeners) :
            \E k \in 1..Len(ev_out.calls) :
                /\ ev_out.calls[k].listener = i
                /\ ev_out.calls[k].call = "on_tap_interface_change"
                /\ ev_out.calls[k].args[4] = ev_in.conf.blacklist

-----------------------------------------------------------------------------
\* C39: a watcher thread spawned by a start that follows a stop begins with
\* the controller addresses the previous thread adopted last, not with those
\* given at construction, so a reset_session is never made with the address
\* list the session already holds.  Stated for one controller name, where
\* every address a thread adopts is announced by reset_session.
C39_Claim ==
    [][listener.domain_names = 1
        => \A t \in 1..MaxSpawns :
            /\ (t > 1 /\ watchers[t].pc = "unborn" /\ watchers'[t].pc = "check")
                    => watchers'[t].ips = uplink.session
            /\ (watchers[t].pc = "sleep" /\ watchers'[t].pc = "check" /\ round'.reset)
                    => uplink'.session # uplink.session
      ]_vars

-----------------------------------------------------------------------------
\* C40: every dispatcher built by Components::new has an id below the number
\* of fast-path shards the Policy was built with, max(1, number of configured
\* source interfaces), the dispatchers of the units appended for extra
\* network namespaces included.
C40_Claim ==
    units_out.built =>
        /\ units_out.policy_queues = Max(1, Len(units_in.src_interfaces))
        /\ \A j \in DOMAIN units_out.dispatchers :
              units_out.dispatchers[j].id < units_out.policy_queues

====
